---- MODULE Spec2Model ----
(***************************************************************************)
(* A model of the GMGN.ai token API wrapper: the retrying HTTP client      *)
(* (GMGNClient.make_request, GMGNWrapper.get_token_rankings), the response *)
(* parser (TokenDataParser.parse_response, Token.from_dict) and the token  *)
(* filters (FilterCriteria.matches, CriteriaFilter, TopNFilter).           *)
(*                                                                         *)
(* Python values are tagged records: [t |-> "null"], [t |-> "bool", b],    *)
(* [t |-> "num", n], [t |-> "str", s], [t |-> "list", l], [t |-> "dict",   *)
(* d].  A number n stands for n/10 (fixed point, one decimal digit), so    *)
(* that int() truncation and float() parsing are not the identity.         *)
(***************************************************************************)
EXTENDS Integers, Sequences, FiniteSets, TLC

(***************************************************************************)
(* Bounds of the model.                                                    *)
(***************************************************************************)
MaxRetries == 3
MaxRank == 3
MaxTokens == 2
MaxAbsent == 2
MaxCalls == 2
MaxListed == 4
MaxLimit == 1
MaxRisks == 12

(***************************************************************************)
(* Python / JSON values.                                                   *)
(***************************************************************************)
None == [t |-> "null"]
JBool(b) == [t |-> "bool", b |-> b]
JNum(n) == [t |-> "num", n |-> n]
JInt(i) == JNum(i * 10)
JStr(s) == [t |-> "str", s |-> s]
JList(l) == [t |-> "list", l |-> l]
JDict(d) == [t |-> "dict", d |-> d]
\* A Python int beyond the range of a double, such as 10**400 (ints are
\* unbounded, and json.loads yields one for a long run of digits).
JHugeInt == [t |-> "int"]
\* The floats that are not finite: c is "nan", "inf" or "-inf".
JFloat(c) == [t |-> "float", c |-> c]
EmptyDict == [k \in {} |-> None]

\* Python truthiness of a value (None, False, 0, "", [] and {} are falsy).
Truthy(v) ==
    CASE v.t = "null" -> FALSE
      [] v.t = "bool" -> v.b
      [] v.t = "num" -> v.n # 0
      [] v.t = "int" -> TRUE
      [] v.t = "float" -> TRUE
      [] v.t = "str" -> Len(v.s) > 0
      [] v.t = "list" -> Len(v.l) > 0
      [] v.t = "dict" -> DOMAIN v.d # {}

\* dict.get(key, default)
Get(d, k, default) == IF k \in DOMAIN d THEN d[k] ELSE default

(***************************************************************************)
(* float() and int() of Python, on the values above.  Results are          *)
(* [ok |-> TRUE, v |-> value] or [ok |-> FALSE, exc |-> exception type].   *)
(***************************************************************************)
Digits == {"0", "1", "2", "3", "4", "5", "6", "7", "8", "9"}
DigitVal(c) ==
    CASE c = "0" -> 0 [] c = "1" -> 1 [] c = "2" -> 2 [] c = "3" -> 3
      [] c = "4" -> 4 [] c = "5" -> 5 [] c = "6" -> 6 [] c = "7" -> 7
      [] c = "8" -> 8 [] c = "9" -> 9
DigitStr(d) ==
    CASE d = 0 -> "0" [] d = 1 -> "1" [] d = 2 -> "2" [] d = 3 -> "3"
      [] d = 4 -> "4" [] d = 5 -> "5" [] d = 6 -> "6" [] d = 7 -> "7"
      [] d = 8 -> "8" [] d = 9 -> "9"
Char(s, i) == SubSeq(s, i, i)

\* str(n) of a non-negative integer.
RECURSIVE IntStr(_)
IntStr(n) == IF n < 10 THEN DigitStr(n) ELSE IntStr(n \div 10) \o DigitStr(n % 10)

\* The value of a string of digits (0 for the empty string).
RECURSIVE DigitsVal(_)
DigitsVal(s) ==
    IF Len(s) = 0 THEN 0
    ELSE DigitsVal(SubSeq(s, 1, Len(s) - 1)) * 10 + DigitVal(Char(s, Len(s)))

AllDigits(s) == \A i \in 1..Len(s) : Char(s, i) \in Digits
Negative(s) == Len(s) > 0 /\ Char(s, 1) = "-"
Unsigned(s) == IF Negative(s) THEN SubSeq(s, 2, Len(s)) ELSE s
DotAt(s) == {i \in 1..Len(s) : Char(s, i) = "."}

\* int("...") accepts an optional sign and one or more digits.
IsIntLiteral(s) == LET u == Unsigned(s) IN Len(u) > 0 /\ AllDigits(u)

\* float("...") accepts an optional sign, digits and at most one point, with
\* a digit on at least one side of it; "nan", "inf" and "-inf" are handled
\* by float itself.  (Exponents are outside the strings the model draws.)
IsFloatLiteral(s) ==
    LET u == Unsigned(s)
        dots == DotAt(u)
    IN  \/ Len(u) > 0 /\ AllDigits(u)
        \/ /\ Cardinality(dots) = 1
           /\ Len(u) > 1
           /\ \A i \in (1..Len(u)) \ dots : Char(u, i) \in Digits

\* The value of a float literal, in tenths (digits after the first decimal
\* are dropped: the model's numbers carry one decimal digit).
FloatLiteralVal(s) ==
    LET u == Unsigned(s)
        dots == DotAt(u)
        p == IF dots = {} THEN Len(u) + 1 ELSE CHOOSE i \in dots : TRUE
        whole == DigitsVal(SubSeq(u, 1, p - 1))
        frac == IF p < Len(u) THEN DigitVal(Char(u, p + 1)) ELSE 0
        mag == whole * 10 + frac
    IN  IF Negative(s) THEN 0 - mag ELSE mag

Ok(v) == [ok |-> TRUE, v |-> v]
Fail(exc) == [ok |-> FALSE, exc |-> exc]

\* float(x)
float(x) ==
    CASE x.t = "num" -> Ok(JNum(x.n))
      [] x.t = "bool" -> Ok(JNum(IF x.b THEN 10 ELSE 0))
      [] x.t = "int" -> Fail("OverflowError")
      [] x.t = "float" -> Ok(x)
      [] x.t = "str" -> IF x.s \in {"nan", "inf", "-inf"} THEN Ok(JFloat(x.s))
                         ELSE IF IsFloatLiteral(x.s)
                         THEN Ok(JNum(FloatLiteralVal(x.s)))
                         ELSE Fail("ValueError")
      [] OTHER -> Fail("TypeError")

\* Truncation toward zero of a number in tenths.
Trunc(n) == IF n >= 0 THEN (n \div 10) * 10 ELSE 0 - (((0 - n) \div 10) * 10)

\* int(x)
int(x) ==
    CASE x.t = "num" -> Ok(JNum(Trunc(x.n)))
      [] x.t = "bool" -> Ok(JNum(IF x.b THEN 10 ELSE 0))
      [] x.t = "int" -> Ok(x)
      [] x.t = "float" -> Fail(IF x.c = "nan" THEN "ValueError"
                               ELSE "OverflowError")
      [] x.t = "str" -> IF IsIntLiteral(x.s)
                         THEN Ok(JNum((IF Negative(x.s) THEN -10 ELSE 10)
                                      * DigitsVal(Unsigned(x.s))))
                         ELSE Fail("ValueError")
      [] OTHER -> Fail("TypeError")

(***************************************************************************)
(* Token and Token.from_dict.                                              *)
(***************************************************************************)
RawFields == {"id", "chain", "address", "symbol"}
FloatFields == {"price", "volume", "liquidity", "market_cap",
                "price_change_percent", "price_change_percent1m",
                "price_change_percent5m", "price_change_percent1h",
                "bluechip_owner_percentage"}
IntFields == {"holder_count", "swaps", "smart_buy_24h", "smart_sell_24h",
              "is_honeypot", "is_open_source", "renounced"}
OptionalFields == {"logo", "buy_tax", "sell_tax", "total_supply", "buys",
                   "sells", "sniper_count", "lock_info"}
TokenFields == RawFields \cup FloatFields \cup IntFields \cup OptionalFields

\* The keyword arguments of cls(...) in the order Python evaluates them.
FieldOrder ==
    << "id", "chain", "address", "symbol", "price", "volume", "liquidity",
       "market_cap", "holder_count", "swaps", "price_change_percent",
       "price_change_percent1m", "price_change_percent5m",
       "price_change_percent1h", "smart_buy_24h", "smart_sell_24h",
       "is_honeypot", "is_open_source", "renounced",
       "bluechip_owner_percentage", "logo", "buy_tax", "sell_tax",
       "total_supply", "buys", "sells", "sniper_count", "lock_info" >>

\* The key of the raw mapping a field is read from.
KeyOf(f) == IF f = "lock_info" THEN "lockInfo" ELSE f

\* Defaults where 'price', the one field the dataclass declares without a
\* default, has none in from_dict either.
DefaultOf_price_required(f) ==
    IF f = "price" THEN None
    ELSE IF f = "id" THEN JNum(0)
    ELSE IF f \in RawFields THEN JStr("")
    ELSE IF f \in FloatFields \cup IntFields THEN JNum(0)
    ELSE None

\* The default data.get falls back to for a field.
DefaultOf(f) ==
    IF f = "id" THEN JNum(0)
    ELSE IF f \in RawFields THEN JStr("")
    ELSE IF f \in FloatFields \cup IntFields THEN JNum(0)
    ELSE None

\* One keyword argument of Token.from_dict.
FieldOf(data, f) ==
    LET raw == Get(data, KeyOf(f), DefaultOf(f))
    IN  IF f \in FloatFields THEN float(raw)
        ELSE IF f \in IntFields THEN int(raw)
        ELSE Ok(raw)

\* Token.from_dict(data): the Token, or the exception of the first keyword
\* argument whose conversion raises.
from_dict(data) ==
    LET bad == {i \in 1..Len(FieldOrder) : ~FieldOf(data, FieldOrder[i]).ok}
    IN  IF bad = {}
        THEN Ok([f \in TokenFields |-> FieldOf(data, f).v])
        ELSE LET i == CHOOSE j \in bad : \A k \in bad : j <= k
             IN  Fail(FieldOf(data, FieldOrder[i]).exc)

(***************************************************************************)
(* Exceptions: [type, message], and GMGNAPIError with its status_code.     *)
(***************************************************************************)
NoException == [type |-> "None"]
Exc(type, message) == [type |-> type, message |-> message]
GMGNAPIError(status_code, message) ==
    [type |-> "GMGNAPIError", status_code |-> status_code, message |-> message]
GMGNParsingError(message) == Exc("GMGNParsingError", message)

\* str(e) of an exception (GMGNAPIError formats itself in __init__).
Str(e) ==
    IF e.type = "None" THEN "None"
    ELSE IF e.type = "GMGNAPIError"
    THEN "API Error " \o IntStr(e.status_code) \o ": " \o e.message
    ELSE e.message

\* What a call produces: a returned value or a raised exception.
Return(v) == [kind |-> "return", value |-> v]
Raise(e) == [kind |-> "raise", exc |-> e]
Pending == [kind |-> "pending"]

(***************************************************************************)
(* TokenDataParser.parse_response.                                         *)
(***************************************************************************)
\* The name type(x) prints for a value.
TypeName(x) ==
    CASE x.t = "null" -> "<class 'NoneType'>"
      [] x.t = "bool" -> "<class 'bool'>"
      [] x.t = "num" -> "<class 'float'>"
      [] x.t = "int" -> "<class 'int'>"
      [] x.t = "float" -> "<class 'float'>"
      [] x.t = "str" -> "<class 'str'>"
      [] x.t = "list" -> "<class 'list'>"
      [] x.t = "dict" -> "<class 'dict'>"

\* The loop with a handler that ends the loop instead of continuing it.
RECURSIVE parse_items_until_failure(_, _, _)
parse_items_until_failure(rank_data, i, tokens) ==
    IF i > Len(rank_data) THEN tokens
    ELSE LET item == rank_data[i]
         IN  IF item.t = "dict"
             THEN LET token == from_dict(item.d)
                  IN  IF token.ok
                      THEN parse_items_until_failure(rank_data, i + 1,
                                                     Append(tokens, token.v))
                      ELSE tokens
             ELSE parse_items_until_failure(rank_data, i + 1, tokens)

\* The loop over rank_data from item i on: a dict item becomes a Token, or is
\* skipped when Token.from_dict raises; any other item is skipped.
RECURSIVE parse_items(_, _, _)
parse_items(rank_data, i, tokens) ==
    IF i > Len(rank_data) THEN tokens
    ELSE LET item == rank_data[i]
         IN  IF item.t = "dict"
             THEN LET token == from_dict(item.d)
                  IN  IF token.ok
                      THEN parse_items(rank_data, i + 1, Append(tokens, token.v))
                      ELSE parse_items(rank_data, i + 1, tokens)
             ELSE parse_items(rank_data, i + 1, tokens)

\* The body of the try block without the check that rank is a list.
parse_body_no_list_check(response) ==
    IF response.t # "dict"
    THEN Raise(GMGNParsingError("Expected dict, got " \o TypeName(response)))
    ELSE IF "data" \notin DOMAIN response.d
    THEN Raise(GMGNParsingError("No 'data' key in response"))
    ELSE LET data == response.d["data"]
         IN  IF data.t # "dict" \/ "rank" \notin DOMAIN data.d
             THEN Raise(GMGNParsingError("Invalid data structure"))
             ELSE LET rank_data == data.d["rank"]
                  IN  CASE rank_data.t = "list" ->
                             Return(parse_items(rank_data.l, 1, << >>))
                        [] rank_data.t \in {"dict", "str"} ->
                             \* iterating yields keys or characters: no dicts
                             Return(<< >>)
                        [] OTHER ->
                             Raise(Exc("TypeError", "object is not iterable"))

\* The body of the try block: the shape checks, then the loop.
parse_body(response) ==
    IF response.t # "dict"
    THEN Raise(GMGNParsingError("Expected dict, got " \o TypeName(response)))
    ELSE IF "data" \notin DOMAIN response.d
    THEN Raise(GMGNParsingError("No 'data' key in response"))
    ELSE LET data == response.d["data"]
         IN  IF data.t # "dict" \/ "rank" \notin DOMAIN data.d
             THEN Raise(GMGNParsingError("Invalid data structure"))
             ELSE LET rank_data == data.d["rank"]
                  IN  IF rank_data.t # "list"
                      THEN Raise(GMGNParsingError("Rank data is not a list"))
                      ELSE Return(parse_items(rank_data.l, 1, << >>))

\* parse_response: the try block, with the handler that re-raises a
\* GMGNParsingError and wraps every other exception in one.
parse_response(response) ==
    LET r == parse_body(response)
    IN  IF r.kind = "raise" /\ r.exc.type # "GMGNParsingError"
        THEN Raise(GMGNParsingError("Parsing failed: " \o Str(r.exc)))
        ELSE r

(***************************************************************************)
(* The state.                                                              *)
(*   The HTTP client (GMGNClient behind GMGNTokenAPI, or GMGNWrapper):     *)
(*     pc              where the call in progress stands                   *)
(*     entry           the entry point called                              *)
(*     max_retries     config.max_retries (GMGNWrapper: the local of 3)    *)
(*     session         the generation of self.session (a new tls_client    *)
(*                     Session object per generation)                      *)
(*     identifier      self.identifier                                     *)
(*     user_agent      self.headers['user-agent']                          *)
(*     attempt         the loop variable                                   *)
(*     last_exception  the local last_exception                            *)
(*     mr_result       what make_request / the retry loop produced         *)
(*     result          what the entry point produced for its caller        *)
(*   History of the call, kept for the properties:                         *)
(*     inflight        GETs sent and not yet answered                      *)
(*     history         per answered GET: the session generation used, the  *)
(*                     response and what the attempt made of it            *)
(*     refreshes       calls of refresh_session                            *)
(***************************************************************************)
VARIABLES pc, entry, max_retries, session, identifier, user_agent, attempt,
          last_exception, mr_result, result, inflight, history, refreshes

\* The parser runs: a decoded response and what parse_response made of it.
VARIABLES p_response, p_result
parse_vars == << p_response, p_result >>

\* The filter runs: a token list, the criteria and N applied to it and the
\* lists the filters returned.
VARIABLES f_pc, f_tokens, f_c1, f_out1, f_c2, f_out2, f_n, f_top
filter_vars == << f_pc, f_tokens, f_c1, f_out1, f_c2, f_out2, f_n, f_top >>

client_vars == << pc, entry, max_retries, session, identifier, user_agent,
                  attempt, last_exception, mr_result, result, inflight,
                  history, refreshes >>

\* The Token.from_dict runs: a raw mapping and what from_dict made of it.
VARIABLES d_data, d_token
dict_vars == << d_data, d_token >>

\* The request-building runs: the arguments, and the URL and parameter list
\* GMGNTokenAPI.get_tokens and GMGNWrapper.get_token_rankings pass to
\* session.get for them.
VARIABLES u_args, u_api, u_wrapper
url_vars == << u_args, u_api, u_wrapper >>

\* The convenience-method runs: the call, the request it sent (None when it
\* sent none), what get_tokens produced for the request and what the method
\* produced for its caller.
VARIABLES q_call, q_request, q_response, q_result
query_vars == << q_call, q_request, q_response, q_result >>

\* The rugcheck runs of get_rugcheck_verified_tokens:
\*   r_pc       where the call stands
\*   r_call     its arguments limit and max_risk_score
\*   r_tokens   the tokens get_tokens returned
\*   r_initial  the local initial_tokens
\*   r_checks   per call of check_token_rug_risk so far: what rugcheck
\*              produced and the result dictionary made of it
\*   r_safe     the local safe_tokens
\*   r_result   what the call produced for its caller
VARIABLES r_pc, r_call, r_tokens, r_initial, r_checks, r_safe, r_result
rug_vars == << r_pc, r_call, r_tokens, r_initial, r_checks, r_safe, r_result >>

\* The object runs: the Token objects by reference, the caller's list of
\* references, the value the last operation returned and the number of
\* operations applied.
VARIABLES o_heap, o_list, o_out, o_calls
frame_vars == << o_heap, o_list, o_out, o_calls >>

\* The runs of _extract_risk_score: the rugcheck result dictionary passed in
\* (None before the run is set up) and what the call produced.
VARIABLES e_result, e_score
risk_vars == << e_result, e_score >>

ext_vars ==
    << dict_vars, url_vars, query_vars, rug_vars, frame_vars, risk_vars >>

\* The groups of variables at rest, in the runs that do not use them.
DictIdle == d_data = EmptyDict /\ d_token = Pending
UrlIdle == u_args = None /\ u_api = Pending /\ u_wrapper = Pending
QueryIdle ==
    /\ q_call = None
    /\ q_request = None
    /\ q_response = Pending
    /\ q_result = Pending
RugIdle ==
    /\ r_pc = "off"
    /\ r_call = None
    /\ r_tokens = << >>
    /\ r_initial = << >>
    /\ r_checks = << >>
    /\ r_safe = << >>
    /\ r_result = Pending
FrameIdle ==
    /\ o_heap = << >>
    /\ o_list = << >>
    /\ o_out = [kind |-> "none"]
    /\ o_calls = 0
RiskIdle == e_result = None /\ e_score = Pending

(***************************************************************************)
(* What the network can answer to session.get.                             *)
(***************************************************************************)
Undecodable == [t |-> "undecodable"]
HttpResponse(status_code, text, body) ==
    [kind |-> "response", status_code |-> status_code, text |-> text,
     body |-> body]
TransportError == [kind |-> "raise", exc |-> Exc("TLSClientExeption", "timeout")]

\* Items of a rank list: well-formed records and malformed ones.
GoodItem ==
    JDict([id |-> JInt(1), symbol |-> JStr("AAA"), price |-> JNum(15),
           volume |-> JInt(500), holder_count |-> JInt(10)])
StringItem ==
    JDict([id |-> JInt(2), symbol |-> JStr("BBB"), price |-> JStr("2.5"),
           holder_count |-> JStr("12"), is_honeypot |-> JBool(TRUE)])
NullPriceItem ==
    JDict([id |-> JInt(3), symbol |-> JStr("CCC"), price |-> None])
TextVolumeItem ==
    JDict([id |-> JInt(4), symbol |-> JStr("DDD"), volume |-> JStr("n/a")])
FractionHoldersItem ==
    JDict([id |-> JInt(5), symbol |-> JStr("EEE"), holder_count |-> JStr("1.5")])
ListSwapsItem ==
    JDict([id |-> JInt(6), swaps |-> JList(<< >>)])

RankResponse(rank) ==
    JDict([code |-> JInt(0), data |-> JDict([rank |-> rank])])

\* Decoded bodies of 200 answers in the client runs: a ranking mixing good and
\* malformed items, and bodies of unexpected shape.
SampleJson ==
    { RankResponse(JList(<< GoodItem, NullPriceItem, StringItem >>)),
      JDict([code |-> JInt(1)]),
      JList(<< >>),
      JDict([data |-> JDict([rank |-> None])]) }

FailStatuses == {403, 429, 503, 404}
ErrorTexts == {"Not Found", "Bad Gateway"}
Responses ==
    {TransportError}
    \cup {HttpResponse(s, x, Undecodable) : s \in FailStatuses, x \in ErrorTexts}
    \cup {HttpResponse(200, "<html>", Undecodable)}
    \cup {HttpResponse(200, "{...}", j) : j \in SampleJson}

\* response.json()
json(response) ==
    IF response.body = Undecodable
    THEN Raise(Exc("JSONDecodeError", "Expecting value"))
    ELSE Return(response.body)

(***************************************************************************)
(* GMGNClient._initialize_session and GMGNWrapper.randomiseRequest.        *)
(* A draw o says which identifier and user agent the random choices give   *)
(* and whether a step raises: "session" (tls_client.Session raises after   *)
(* the identifier was drawn) or "user_agent" (UserAgent() fails and the    *)
(* fallback raises, after the session was replaced).                       *)
(***************************************************************************)
Identifiers == {"chrome_120", "safari_ios_16_0"}
UserAgents == {"Mozilla/5.0 Firefox/82.0", "Mozilla/5.0 Chrome/91.0"}
Draws ==
    [identifier : Identifiers, user_agent : UserAgents,
     raises : {"no", "session", "user_agent"}]

DrawException(o) ==
    IF o.raises = "session"
    THEN Exc("TLSClientExeption", "session")
    ELSE Exc("IndexError", "Cannot choose from an empty sequence")

_initialize_session(o) ==
    /\ identifier' = o.identifier
    /\ session' = IF o.raises = "session" THEN session ELSE session + 1
    /\ user_agent' = IF o.raises = "no" THEN o.user_agent ELSE user_agent

(***************************************************************************)
(* GMGNClient.make_request, called from GMGNTokenAPI.get_tokens.           *)
(***************************************************************************)
\* A loop that runs once more than range() does.
in_range_inclusive(a, n) == a <= n

\* for attempt in range(self.config.max_retries)
in_range(a, n) == a < n

\* The try block without the branch for the Cloudflare statuses.
attempt_result_text_only(response) ==
    IF response.kind = "raise" THEN Raise(response.exc)
    ELSE IF response.status_code = 200 THEN json(response)
    ELSE Raise(GMGNAPIError(response.status_code, response.text))

\* The try block of one attempt, given the answer to the GET.
attempt_result(response) ==
    IF response.kind = "raise" THEN Raise(response.exc)
    ELSE IF response.status_code = 200 THEN json(response)
    ELSE IF response.status_code \in {403, 429, 503}
    THEN Raise(GMGNAPIError(response.status_code, "Cloudflare block detected"))
    ELSE Raise(GMGNAPIError(response.status_code, response.text))

\* A handler that keeps the first exception of the call.
handler_keeps_first_exception(last, e) == IF last = NoException THEN e ELSE last

\* last_exception = e
handler_last_exception(last, e) == e

\* A handler that refreshes after the last attempt too.
handler_always_refreshes(a, n) == a < n

\* if attempt < self.config.max_retries - 1
handler_refreshes(a, n) == a < n - 1

\* The raise after the loop.
final_error(last) ==
    IF last.type = "GMGNAPIError" THEN last
    ELSE GMGNAPIError(500, "Request failed: " \o Str(last))

\* GMGNTokenAPI.get_tokens up to its call of make_request.
get_tokens ==
    /\ pc = "ready"
    /\ pc' = "mr_loop"
    /\ entry' = "get_tokens"
    /\ attempt' = 0
    /\ last_exception' = NoException
    /\ UNCHANGED << parse_vars, filter_vars, ext_vars >>
    /\ UNCHANGED << max_retries, session, identifier, user_agent, mr_result,
                    result, inflight, history, refreshes >>

\* self.session.get(...) is sent.
make_request_get ==
    /\ pc = "mr_loop"
    /\ in_range(attempt, max_retries)
    /\ pc' = "mr_wait"
    /\ inflight' = inflight + 1
    /\ UNCHANGED << parse_vars, filter_vars, ext_vars >>
    /\ UNCHANGED << entry, max_retries, session, identifier, user_agent, attempt,
                    last_exception, mr_result, result, history, refreshes >>

\* The GET is answered: the rest of the try block and, on an exception, the
\* handler up to the call of refresh_session.
make_request_response ==
    /\ pc = "mr_wait"
    /\ \E response \in Responses :
         LET r == attempt_result(response)
         IN  /\ inflight' = inflight - 1
             /\ history' = Append(history, [session |-> session,
                                            response |-> response,
                                            outcome |-> r])
             /\ IF r.kind = "return"
                THEN /\ mr_result' = r
                     /\ pc' = "parse"
                     /\ UNCHANGED << attempt, last_exception >>
                ELSE /\ last_exception' = handler_last_exception(last_exception, r.exc)
                     /\ mr_result' = mr_result
                     /\ IF handler_refreshes(attempt, max_retries)
                        THEN pc' = "mr_refresh" /\ attempt' = attempt
                        ELSE pc' = "mr_loop" /\ attempt' = attempt + 1
    /\ UNCHANGED << parse_vars, filter_vars, ext_vars >>
    /\ UNCHANGED << entry, max_retries, session, identifier, user_agent, result,
                    refreshes >>

\* self.refresh_session() in the handler; an exception it raises leaves
\* make_request and get_tokens.
make_request_refresh ==
    /\ pc = "mr_refresh"
    /\ refreshes' = refreshes + 1
    /\ \E o \in Draws :
         /\ _initialize_session(o)
         /\ IF o.raises = "no"
            THEN /\ pc' = "mr_loop"
                 /\ attempt' = attempt + 1
                 /\ UNCHANGED << mr_result, result >>
            ELSE /\ pc' = "done"
                 /\ mr_result' = Raise(DrawException(o))
                 /\ result' = Raise(DrawException(o))
                 /\ attempt' = attempt
    /\ UNCHANGED << parse_vars, filter_vars, ext_vars >>
    /\ UNCHANGED << entry, max_retries, last_exception, inflight, history >>

\* The loop is over: make_request raises, and so does get_tokens.
make_request_raise ==
    /\ pc = "mr_loop"
    /\ ~in_range(attempt, max_retries)
    /\ pc' = "done"
    /\ mr_result' = Raise(final_error(last_exception))
    /\ result' = Raise(final_error(last_exception))
    /\ UNCHANGED << parse_vars, filter_vars, ext_vars >>
    /\ UNCHANGED << entry, max_retries, session, identifier, user_agent, attempt,
                    last_exception, inflight, history, refreshes >>

\* A get_tokens that answers a GMGNParsingError with a refresh and a retry.
get_tokens_parse_retrying ==
    /\ pc = "parse"
    /\ LET r == parse_response(mr_result.value)
       IN  IF r.kind = "raise"
           THEN pc' = "mr_refresh" /\ result' = result
           ELSE pc' = "done" /\ result' = r
    /\ UNCHANGED << parse_vars, filter_vars, ext_vars >>
    /\ UNCHANGED << entry, max_retries, session, identifier, user_agent, attempt,
                    last_exception, mr_result, inflight, history, refreshes >>

\* get_tokens after make_request returned: parse_response, whose tokens are
\* returned and whose GMGNParsingError leaves get_tokens.
get_tokens_parse ==
    /\ pc = "parse"
    /\ pc' = "done"
    /\ result' = parse_response(mr_result.value)
    /\ UNCHANGED << parse_vars, filter_vars, ext_vars >>
    /\ UNCHANGED << entry, max_retries, session, identifier, user_agent, attempt,
                    last_exception, mr_result, inflight, history, refreshes >>

(***************************************************************************)
(* GMGNWrapper.get_token_rankings.                                         *)
(***************************************************************************)
WrapperMaxRetries == 3

\* The try block of one attempt of the wrapper.
wrapper_attempt_result(response) ==
    IF response.kind = "raise" THEN Raise(response.exc)
    ELSE IF response.status_code = 200 THEN json(response)
    ELSE IF response.status_code \in {403, 429, 503}
    THEN Raise(Exc("Exception", "Cloudflare block detected (status "
                                \o IntStr(response.status_code) \o ")"))
    ELSE Raise(Exc("Exception", "API request failed with status "
                                \o IntStr(response.status_code) \o ": "
                                \o response.text))

\* The raise after the wrapper's loop.
wrapper_final_error(last) ==
    Exc("Exception", "All " \o IntStr(WrapperMaxRetries)
                     \o " attempts failed. Last error: " \o Str(last))

\* The call up to the loop: randomiseRequest, the isinstance checks of the
\* arguments (valid: whether they all pass), the URL and parameters.
get_token_rankings ==
    /\ pc = "ready"
    /\ entry' = "get_token_rankings"
    /\ \E o \in Draws, valid \in BOOLEAN :
         /\ _initialize_session(o)
         /\ IF o.raises # "no"
            THEN /\ pc' = "done"
                 /\ result' = Raise(DrawException(o))
                 /\ UNCHANGED << max_retries, attempt, last_exception >>
            ELSE IF ~valid
            THEN /\ pc' = "done"
                 /\ result' = Raise(Exc("ValueError", "Invalid chain"))
                 /\ UNCHANGED << max_retries, attempt, last_exception >>
            ELSE /\ pc' = "w_loop"
                 /\ max_retries' = WrapperMaxRetries
                 /\ attempt' = 0
                 /\ last_exception' = NoException
                 /\ result' = result
    /\ UNCHANGED << parse_vars, filter_vars, ext_vars >>
    /\ UNCHANGED << mr_result, inflight, history, refreshes >>

wrapper_get ==
    /\ pc = "w_loop"
    /\ in_range(attempt, max_retries)
    /\ pc' = "w_wait"
    /\ inflight' = inflight + 1
    /\ UNCHANGED << parse_vars, filter_vars, ext_vars >>
    /\ UNCHANGED << entry, max_retries, session, identifier, user_agent, attempt,
                    last_exception, mr_result, result, history, refreshes >>

\* The GET is answered; on the last attempt the handler breaks out of the loop.
wrapper_response ==
    /\ pc = "w_wait"
    /\ \E response \in Responses :
         LET r == wrapper_attempt_result(response)
         IN  /\ inflight' = inflight - 1
             /\ history' = Append(history, [session |-> session,
                                            response |-> response,
                                            outcome |-> r])
             /\ IF r.kind = "return"
                THEN /\ result' = r
                     /\ pc' = "done"
                     /\ UNCHANGED << attempt, last_exception >>
                ELSE /\ last_exception' = r.exc
                     /\ result' = result
                     /\ IF attempt < max_retries - 1
                        THEN pc' = "w_refresh" /\ attempt' = attempt
                        ELSE pc' = "w_break" /\ attempt' = attempt
    /\ UNCHANGED << parse_vars, filter_vars, ext_vars >>
    /\ UNCHANGED << entry, max_retries, session, identifier, user_agent, mr_result,
                    refreshes >>

wrapper_refresh ==
    /\ pc = "w_refresh"
    /\ refreshes' = refreshes + 1
    /\ \E o \in Draws :
         /\ _initialize_session(o)
         /\ IF o.raises = "no"
            THEN /\ pc' = "w_loop"
                 /\ attempt' = attempt + 1
                 /\ result' = result
            ELSE /\ pc' = "done"
                 /\ result' = Raise(DrawException(o))
                 /\ attempt' = attempt
    /\ UNCHANGED << parse_vars, filter_vars, ext_vars >>
    /\ UNCHANGED << entry, max_retries, last_exception, mr_result, inflight, history >>

wrapper_raise ==
    /\ pc = "w_break"
    /\ pc' = "done"
    /\ result' = Raise(wrapper_final_error(last_exception))
    /\ UNCHANGED << parse_vars, filter_vars, ext_vars >>
    /\ UNCHANGED << entry, max_retries, session, identifier, user_agent, attempt,
                    last_exception, mr_result, inflight, history, refreshes >>

(***************************************************************************)
(* FilterCriteria.matches and the filters.                                 *)
(***************************************************************************)
MinFields == {"min_volume", "min_market_cap", "min_liquidity",
              "min_holder_count", "min_price_change", "min_age_days"}
MaxFields == {"max_volume", "max_market_cap", "max_liquidity",
              "max_price_change"}
ThresholdFields == MinFields \cup MaxFields

\* FilterCriteria(): every threshold None, exclude_honeypots True.
FilterCriteria ==
    [f \in ThresholdFields \cup {"exclude_honeypots"} |->
        IF f = "exclude_honeypots" THEN JBool(TRUE) ELSE None]

\* if self.<threshold> and token.<field> < self.<threshold>: return False
below(c, f, token, field) == Truthy(c[f]) /\ token[field].n < c[f].n
above(c, f, token, field) == Truthy(c[f]) /\ token[field].n > c[f].n

\* FilterCriteria.matches(token)
matches(c, token) ==
    IF Truthy(c["exclude_honeypots"]) /\ Truthy(token["is_honeypot"]) THEN FALSE
    ELSE IF below(c, "min_volume", token, "volume") THEN FALSE
    ELSE IF above(c, "max_volume", token, "volume") THEN FALSE
    ELSE IF below(c, "min_market_cap", token, "market_cap") THEN FALSE
    ELSE IF above(c, "max_market_cap", token, "market_cap") THEN FALSE
    ELSE IF below(c, "min_liquidity", token, "liquidity") THEN FALSE
    ELSE IF above(c, "max_liquidity", token, "liquidity") THEN FALSE
    ELSE IF below(c, "min_holder_count", token, "holder_count") THEN FALSE
    ELSE IF below(c, "min_price_change", token, "price_change_percent") THEN FALSE
    ELSE IF above(c, "max_price_change", token, "price_change_percent") THEN FALSE
    ELSE TRUE

\* CriteriaFilter(criteria).filter(tokens)
CriteriaFilter_filter(criteria, tokens) ==
    SelectSeq(tokens, LAMBDA token : matches(criteria, token))

Min(a, b) == IF a < b THEN a ELSE b
Max(a, b) == IF a > b THEN a ELSE b

\* tokens[:n] of Python: a negative n counts from the end.
SliceTo(tokens, n) ==
    LET stop == IF n < 0 THEN Max(Len(tokens) + n, 0) ELSE Min(n, Len(tokens))
    IN  SubSeq(tokens, 1, stop)

\* A slice that takes one item more.
TopNFilter_filter_one_more(n, tokens) == SliceTo(tokens, n + 1)

\* TopNFilter(n).filter(tokens)
TopNFilter_filter(n, tokens) == SliceTo(tokens, n)

(***************************************************************************)
(* The filter runs: the filters applied to lists of sample tokens.         *)
(***************************************************************************)
SeqsUpTo(S, n) == UNION {[1..k -> S] : k \in 0..n}

\* Tokens as Token.from_dict builds them.
TokenOf(data) == from_dict(data).v
SampleTokens ==
    { TokenOf([symbol |-> JStr("BIG"), volume |-> JInt(500),
               market_cap |-> JInt(500), liquidity |-> JInt(500),
               holder_count |-> JInt(500), price_change_percent |-> JInt(50)]),
      TokenOf([symbol |-> JStr("DROP"), volume |-> JInt(50),
               market_cap |-> JInt(50), liquidity |-> JInt(50),
               holder_count |-> JInt(50), price_change_percent |-> JInt(-100)]),
      TokenOf([symbol |-> JStr("TRAP"), volume |-> JInt(500),
               is_honeypot |-> JInt(1)]),
      TokenOf(EmptyDict) }

ThresholdValues == {JInt(-50), JInt(0), JInt(100)}

\* Criteria with at most one threshold set.
SampleCriteria ==
    { [FilterCriteria EXCEPT !["exclude_honeypots"] = JBool(e)] : e \in BOOLEAN }
    \cup { [FilterCriteria EXCEPT ![f] = v, !["exclude_honeypots"] = JBool(e)] :
             f \in ThresholdFields, v \in ThresholdValues, e \in BOOLEAN }

\* c with one threshold made stricter: a min raised or newly set, a max
\* lowered or newly set.
Stricter(c) ==
    { c2 \in { [c EXCEPT ![f] = v] : f \in ThresholdFields, v \in ThresholdValues } :
        \E f \in ThresholdFields :
            /\ c2 = [c EXCEPT ![f] = c2[f]]
            /\ c[f] # None =>
                 IF f \in MinFields THEN c2[f].n > c[f].n ELSE c2[f].n < c[f].n }

FilterIdle ==
    /\ f_pc = "off"
    /\ f_tokens = << >>
    /\ f_c1 = FilterCriteria
    /\ f_out1 = << >>
    /\ f_c2 = FilterCriteria
    /\ f_out2 = << >>
    /\ f_n = 0
    /\ f_top = << >>

FilterInit ==
    /\ f_pc = "ready"
    /\ f_tokens \in SeqsUpTo(SampleTokens, MaxTokens)
    /\ f_c1 = FilterCriteria
    /\ f_out1 = << >>
    /\ f_c2 = FilterCriteria
    /\ f_out2 = << >>
    /\ f_n = 0
    /\ f_top = << >>

\* CriteriaFilter(c).filter(f_tokens)
CriteriaFilter_call ==
    /\ f_pc = "ready"
    /\ \E c \in SampleCriteria :
         /\ f_c1' = c
         /\ f_out1' = CriteriaFilter_filter(c, f_tokens)
    /\ f_pc' = "filtered"
    /\ UNCHANGED << f_tokens, f_c2, f_out2, f_n, f_top >>
    /\ UNCHANGED << client_vars, parse_vars, ext_vars >>

\* A second CriteriaFilter on the same list, with one threshold stricter.
CriteriaFilter_stricter_call ==
    /\ f_pc = "filtered"
    /\ \E c \in Stricter(f_c1) :
         /\ f_c2' = c
         /\ f_out2' = CriteriaFilter_filter(c, f_tokens)
    /\ f_pc' = "compared"
    /\ UNCHANGED << f_tokens, f_c1, f_out1, f_n, f_top >>
    /\ UNCHANGED << client_vars, parse_vars, ext_vars >>

\* TopNFilter(n).filter(f_tokens)
TopNFilter_call ==
    /\ f_pc = "ready"
    /\ \E n \in (0 - MaxTokens - 1)..(MaxTokens + 1) :
         /\ f_n' = n
         /\ f_top' = TopNFilter_filter(n, f_tokens)
    /\ f_pc' = "topped"
    /\ UNCHANGED << f_tokens, f_c1, f_out1, f_c2, f_out2 >>
    /\ UNCHANGED << client_vars, parse_vars, ext_vars >>

(***************************************************************************)
(* The parser runs: parse_response applied to decoded responses.           *)
(***************************************************************************)
SampleItems ==
    { GoodItem, StringItem, NullPriceItem, TextVolumeItem,
      FractionHoldersItem, ListSwapsItem, JDict(EmptyDict),
      None, JInt(7), JStr("AAA") }

SampleResponses ==
    { None, JList(<< GoodItem >>), JStr("error"), JInt(5),
      JDict(EmptyDict),
      JDict([code |-> JInt(1)]),
      JDict([data |-> None]),
      JDict([data |-> JList(<< GoodItem >>)]),
      JDict([data |-> JDict(EmptyDict)]),
      JDict([data |-> JDict([rank |-> None])]),
      JDict([data |-> JDict([rank |-> JDict([a |-> GoodItem])])]),
      JDict([data |-> JDict([rank |-> JStr("none")])]),
      JDict([data |-> JDict([rank |-> JInt(5)])]) }
    \cup { RankResponse(JList(rank)) : rank \in SeqsUpTo(SampleItems, MaxRank) }

ParseIdle ==
    /\ p_response = None
    /\ p_result = Pending

ParseInit ==
    /\ p_response \in SampleResponses
    /\ p_result = Pending

\* TokenDataParser().parse_response(p_response)
parse_response_call ==
    /\ p_result = Pending
    /\ p_result' = parse_response(p_response)
    /\ UNCHANGED << p_response, client_vars, filter_vars, ext_vars >>

(***************************************************************************)
(* The client runs: one call of an entry point on a constructed client.    *)
(***************************************************************************)
vars == << client_vars, parse_vars, filter_vars, ext_vars >>

\* After GMGNClient(config) / GMGNWrapper(): a first session is initialised.
ClientInit ==
    /\ pc = "ready"
    /\ entry = "none"
    /\ max_retries \in 0..MaxRetries
    /\ session = 1
    /\ identifier \in Identifiers
    /\ user_agent \in UserAgents
    /\ attempt = 0
    /\ last_exception = NoException
    /\ mr_result = Pending
    /\ result = Pending
    /\ inflight = 0
    /\ history = << >>
    /\ refreshes = 0

\* No client call in these runs.
ClientIdle ==
    /\ pc = "off"
    /\ entry = "none"
    /\ max_retries = 0
    /\ session = 1
    /\ identifier = "chrome_120"
    /\ user_agent = "Mozilla/5.0 Firefox/82.0"
    /\ attempt = 0
    /\ last_exception = NoException
    /\ mr_result = Pending
    /\ result = Pending
    /\ inflight = 0
    /\ history = << >>
    /\ refreshes = 0

\* The runs that use none of the later groups of variables.
ExtIdle ==
    DictIdle /\ UrlIdle /\ QueryIdle /\ RugIdle /\ FrameIdle /\ RiskIdle

Init == ClientInit /\ ParseIdle /\ FilterIdle /\ ExtIdle

Next ==
    \/ get_tokens
    \/ make_request_get
    \/ make_request_response
    \/ make_request_refresh
    \/ make_request_raise
    \/ get_tokens_parse
    \/ get_token_rankings
    \/ wrapper_get
    \/ wrapper_response
    \/ wrapper_refresh
    \/ wrapper_raise

Spec == Init /\ [][Next]_vars

\* The calls are synchronous and every GET is answered or times out.
FairSpec == Spec /\ WF_vars(Next)

\* The parser runs.
ParseNext == parse_response_call
InitParse == ClientIdle /\ ParseInit /\ FilterIdle /\ ExtIdle
SpecParse == InitParse /\ [][ParseNext]_vars

\* The filter runs.
FilterNext ==
    \/ CriteriaFilter_call
    \/ CriteriaFilter_stricter_call
    \/ TopNFilter_call
InitFilter == ClientIdle /\ ParseIdle /\ FilterInit /\ ExtIdle
SpecFilter == InitFilter /\ [][FilterNext]_vars

(***************************************************************************)
(* Properties of the retry loop.                                           *)
(***************************************************************************)
Failed(h) == h.outcome.kind = "raise"
Answers200(h) == h.response.kind = "response" /\ h.response.status_code = 200
Decodes(h) == Answers200(h) /\ h.response.body # Undecodable
Sent == Len(history) + inflight
NFailed == Cardinality({i \in DOMAIN history : Failed(history[i])})
Allowed == IF entry = "get_token_rankings" THEN 3 ELSE max_retries
\* What the retry loop of the entry point produced.
LoopResult == IF entry = "get_token_rankings" THEN result ELSE mr_result
LastAttempt == history[Len(history)]
\* make_request used every allowed attempt and each one failed.
AllFailed ==
    /\ entry = "get_tokens"
    /\ pc = "done"
    /\ max_retries >= 1
    /\ Len(history) = max_retries
    /\ \A i \in DOMAIN history : Failed(history[i])

\* A decoded response of unexpected shape: not a dict, no 'data', 'data' not a
\* dict or without 'rank', or 'rank' not a list.
UnexpectedShape(r) ==
    \/ r.t # "dict"
    \/ "data" \notin DOMAIN r.d
    \/ r.d["data"].t # "dict"
    \/ "rank" \notin DOMAIN r.d["data"].d
    \/ r.d["data"].d["rank"].t # "list"

\* C1, as stated: at most max_retries GETs (the wrapper: 3), one at a time;
\* the first attempt that answers 200 ends the call, which returns its decoded
\* JSON, and no GET follows it.
C1_AsStated ==
    /\ Sent <= Allowed
    /\ inflight <= 1
    /\ \A i \in DOMAIN history :
         Answers200(history[i]) =>
            /\ i = Len(history)
            /\ inflight = 0
            /\ LoopResult = Return(history[i].response.body)

\* The safety part of C1 as amended: only an answer of 200 whose body decodes
\* as JSON ends the loop with a return.
C1_Safe ==
    /\ Sent <= Allowed
    /\ inflight <= 1
    /\ \A i \in DOMAIN history :
         Decodes(history[i]) =>
            /\ i = Len(history)
            /\ inflight = 0
            /\ LoopResult = Return(history[i].response.body)
    /\ LoopResult.kind = "return" => Len(history) > 0 /\ Decodes(LastAttempt)

\* The call has ended, by returning or raising, with no GET outstanding.
C1_Ends ==
    /\ pc = "done"
    /\ inflight = 0
    /\ result.kind \in {"return", "raise"}

\* C1, amended: one call sends at most max_retries GETs (the wrapper: 3), one
\* at a time; the first attempt that answers 200 with a body that decodes as
\* JSON ends the loop, which returns that JSON, and no GET follows it; the
\* call always ends by returning or raising once every GET has answered.
C1_SequentialRetry == []C1_Safe /\ <>C1_Ends

\* A call that returned the JSON of its second attempt after a first attempt
\* answered 200 with a body that is not JSON.
C1_Witness ==
    /\ pc = "done"
    /\ Len(history) = 2
    /\ Answers200(history[1]) /\ ~Decodes(history[1])
    /\ Decodes(history[2])
    /\ LoopResult = Return(history[2].response.body)

\* C2: when every allowed attempt of make_request fails, the error raised is
\* that of the final attempt: its GMGNAPIError unchanged, with the status of
\* the final response, or else a GMGNAPIError 500 wrapping the final
\* exception's message.
C2_LastErrorRaised ==
    AllFailed =>
        LET final == LastAttempt
        IN  /\ mr_result.kind = "raise"
            /\ mr_result.exc.type = "GMGNAPIError"
            /\ IF final.response.kind = "response" /\ ~Answers200(final)
               THEN /\ mr_result.exc = final.outcome.exc
                    /\ mr_result.exc.status_code = final.response.status_code
               ELSE /\ mr_result.exc.status_code = 500
                    /\ mr_result.exc.message
                         = "Request failed: " \o final.outcome.exc.message

\* All attempts failed and the final one failed differently from the first.
C2_Witness ==
    /\ AllFailed
    /\ Len(history) >= 2
    /\ history[1].outcome # LastAttempt.outcome
    /\ mr_result.kind = "raise"

\* The sessions of consecutive attempts: each attempt after the first uses a
\* session created after the preceding attempt.
SessionsFresh ==
    \A i \in 2..Len(history) : history[i].session > history[i - 1].session

\* C3, as stated: every failed attempt is followed by exactly one refresh, so
\* that a finished call made as many refreshes as it had failed attempts, and
\* every attempt after the first uses a session created after the failure.
C3_AsStated ==
    pc = "done" => (refreshes = NFailed /\ SessionsFresh)

\* C3, amended: every failed attempt except the last allowed one is followed
\* by exactly one call of refresh_session before the next attempt (the last
\* allowed attempt is followed by none), so the refreshes of a call number its
\* failed attempts other than the last allowed one; every attempt after the
\* first uses the session created by the refresh after the preceding failure.
C3_RefreshPerRetry ==
    LET retried == {i \in DOMAIN history : Failed(history[i]) /\ i < Allowed}
        due == IF pc \in {"mr_refresh", "w_refresh"} THEN 1 ELSE 0
    IN  /\ refreshes + due = Cardinality(retried)
        /\ SessionsFresh
        /\ \A i \in 2..Len(history) :
             /\ Failed(history[i - 1])
             /\ history[i].session = history[i - 1].session + 1

\* A finished call of make_request whose attempts all failed: one refresh
\* fewer than failed attempts.
C3_Witness ==
    /\ AllFailed
    /\ Len(history) >= 2
    /\ refreshes = Len(history) - 1
    /\ NFailed = Len(history)

\* A call of make_request ended by a non-200 answer to its last attempt.
EndedByStatus ==
    /\ AllFailed
    /\ LastAttempt.response.kind = "response"
    /\ ~Answers200(LastAttempt)

\* C4, as stated: the GMGNAPIError of a call ended by a non-200 response
\* carries the status and the body of that response.
C4_AsStated ==
    EndedByStatus =>
        /\ mr_result.exc.type = "GMGNAPIError"
        /\ mr_result.exc.status_code = LastAttempt.response.status_code
        /\ mr_result.exc.message = LastAttempt.response.text

\* C4, amended: the GMGNAPIError carries the status of the response; its
\* message is the body, except for the statuses 403, 429 and 503, where it is
\* the fixed text "Cloudflare block detected".
C4_StatusAndMessage ==
    EndedByStatus =>
        /\ mr_result.kind = "raise"
        /\ mr_result.exc.type = "GMGNAPIError"
        /\ mr_result.exc.status_code = LastAttempt.response.status_code
        /\ mr_result.exc.message
             = IF LastAttempt.response.status_code \in {403, 429, 503}
               THEN "Cloudflare block detected"
               ELSE LastAttempt.response.text

\* A call ended by a 503 whose body is not the message raised.
C4_Witness ==
    /\ EndedByStatus
    /\ LastAttempt.response.status_code = 503
    /\ LastAttempt.response.text = "Bad Gateway"
    /\ mr_result.exc.message = "Cloudflare block detected"

\* C5: a call of make_request that does not return raises a GMGNAPIError and
\* nothing else, whatever fails (the GET, the decoding, the refresh).
C5_OnlyAPIError ==
    (entry = "get_tokens" /\ mr_result.kind = "raise")
        => mr_result.exc.type = "GMGNAPIError"

\* C10: in get_tokens, once make_request has returned the JSON of a 200, the
\* outcome of parse_response is the outcome of get_tokens: a response of
\* unexpected shape raises GMGNParsingError to the caller, with no further
\* GET and no session refresh, and nothing happens after the call ended.
C10_ParsingErrorNotRetried ==
    [][ /\ pc = "parse" =>
            /\ pc' = "done"
            /\ inflight' = inflight /\ history' = history
            /\ refreshes' = refreshes /\ session' = session
            /\ UnexpectedShape(mr_result.value)
                 => /\ result'.kind = "raise"
                    /\ result'.exc.type = "GMGNParsingError"
        /\ pc = "done" => FALSE ]_vars

\* get_tokens raised a GMGNParsingError for the 200 of a second attempt.
C10_Witness ==
    /\ entry = "get_tokens"
    /\ pc = "done"
    /\ result.kind = "raise"
    /\ result.exc.type = "GMGNParsingError"
    /\ Len(history) = 2
    /\ Failed(history[1]) /\ Decodes(history[2])
    /\ refreshes = 1 /\ session = history[2].session

(***************************************************************************)
(* Properties of the filters.                                              *)
(***************************************************************************)
IsPrefix(p, q) == Len(p) <= Len(q) /\ p = SubSeq(q, 1, Len(p))

\* C6: CriteriaFilter is monotone: with one threshold of the criteria made
\* stricter, every token the filter returns was returned before.
C6_Monotone ==
    f_pc = "compared" =>
        \A i \in DOMAIN f_out2 : \E j \in DOMAIN f_out1 : f_out1[j] = f_out2[i]

\* C7, as stated: for every N, TopNFilter(N).filter returns a prefix of the
\* input with at most N items.
C7_AsStated ==
    f_pc = "topped" => (IsPrefix(f_top, f_tokens) /\ Len(f_top) <= f_n)

\* C7, amended: TopNFilter(N).filter returns a prefix of the input in the
\* input's order; for N >= 0 it has min(N, len) items, so at most N; for
\* N < 0 it is the input without its last -N items (len + N items, or none).
C7_PrefixOfLengthN ==
    f_pc = "topped" =>
        /\ IsPrefix(f_top, f_tokens)
        /\ f_n >= 0 => Len(f_top) = Min(f_n, Len(f_tokens))
        /\ f_n < 0 => Len(f_top) = Max(Len(f_tokens) + f_n, 0)

\* TopNFilter(-1) on two tokens returned one token.
C7_Witness ==
    /\ f_pc = "topped"
    /\ f_n = -1
    /\ Len(f_tokens) = 2
    /\ Len(f_top) = 1

(***************************************************************************)
(* Properties of the parser.                                               *)
(***************************************************************************)
\* JSON values the constructors of a numeric field accept.
NumericFor(f, v) ==
    \/ v.t \in {"num", "bool"}
    \/ v.t = "str" /\ IF f \in IntFields THEN IsIntLiteral(v.s)
                      ELSE IsFloatLiteral(v.s)

\* A well-formed item: a dict whose numeric fields, where present, are
\* numeric (not null, not text, not a container).
WellFormed(item) ==
    /\ item.t = "dict"
    /\ \A f \in FloatFields \cup IntFields :
         f \in DOMAIN item.d => NumericFor(f, item.d[f])

RankOf(response) == response.d["data"].d["rank"].l

\* The Tokens of the well-formed items of a rank list, in their order.
TokensOfWellFormed(rank) ==
    LET good == SelectSeq(rank, WellFormed)
    IN  [i \in 1..Len(good) |-> from_dict(good[i].d).v]

\* C8: on a well-shaped response parse_response never raises and returns
\* exactly the Tokens of the well-formed items, in their order: a malformed
\* item does not stop the items after it from being parsed.
C8_MalformedSkipped ==
    (p_result # Pending /\ ~UnexpectedShape(p_response)) =>
        /\ p_result.kind = "return"
        /\ p_result.value = TokensOfWellFormed(RankOf(p_response))

\* A parsed rank list whose first item is malformed and whose last is not.
C8_Witness ==
    /\ p_result # Pending
    /\ ~UnexpectedShape(p_response)
    /\ Len(RankOf(p_response)) = 3
    /\ RankOf(p_response)[1] = NullPriceItem
    /\ RankOf(p_response)[2] = None
    /\ RankOf(p_response)[3] = StringItem
    /\ p_result.kind = "return"
    /\ Len(p_result.value) = 1

\* C9: for a response of unexpected shape parse_response raises
\* GMGNParsingError, nothing else, and returns no token list.
C9_UnexpectedShapeRaises ==
    (p_result # Pending /\ UnexpectedShape(p_response)) =>
        /\ p_result.kind = "raise"
        /\ p_result.exc.type = "GMGNParsingError"

\* parse_response raised for a response whose rank is a dict, not a list.
C9_Witness ==
    /\ p_response = JDict([data |-> JDict([rank |-> JDict([a |-> GoodItem])])])
    /\ p_result.kind = "raise"
    /\ p_result.exc.type = "GMGNParsingError"

(***************************************************************************)
(* The Token.from_dict runs: from_dict applied to raw mappings from which  *)
(* keys are absent.                                                        *)
(***************************************************************************)
\* A raw mapping with every key, numbers as JSON numbers.
NumberMapping ==
    [id |-> JInt(7), chain |-> JStr("sol"), address |-> JStr("So1"),
     symbol |-> JStr("AAA"), price |-> JNum(15), volume |-> JInt(500),
     liquidity |-> JInt(300), market_cap |-> JInt(900),
     holder_count |-> JNum(125), swaps |-> JInt(40),
     price_change_percent |-> JNum(-35), price_change_percent1m |-> JNum(1),
     price_change_percent5m |-> JNum(2), price_change_percent1h |-> JNum(3),
     smart_buy_24h |-> JInt(4), smart_sell_24h |-> JInt(5),
     is_honeypot |-> JInt(1), is_open_source |-> JInt(1),
     renounced |-> JInt(1), bluechip_owner_percentage |-> JNum(4),
     logo |-> JStr("a.png"), buy_tax |-> JStr("0.01"),
     sell_tax |-> JStr("0.02"), total_supply |-> JInt(1000),
     buys |-> JInt(20), sells |-> JInt(21), sniper_count |-> JInt(2),
     lockInfo |-> JDict([isLock |-> JBool(TRUE)])]

\* A raw mapping with every key, numbers as text and flags as booleans.
TextMapping ==
    [id |-> JStr("8"), chain |-> JStr("eth"), address |-> JStr("0xb"),
     symbol |-> JStr("BBB"), price |-> JStr("2.5"), volume |-> JStr("600"),
     liquidity |-> JStr("0.5"), market_cap |-> JStr("-1"),
     holder_count |-> JStr("12"), swaps |-> JStr("-3"),
     price_change_percent |-> JStr("-0.5"),
     price_change_percent1m |-> JStr(".7"),
     price_change_percent5m |-> JStr("8."),
     price_change_percent1h |-> JStr("9"),
     smart_buy_24h |-> JStr("6"), smart_sell_24h |-> JStr("7"),
     is_honeypot |-> JBool(FALSE), is_open_source |-> JBool(TRUE),
     renounced |-> JBool(FALSE), bluechip_owner_percentage |-> JStr("0.1"),
     logo |-> JStr("b.png"), buy_tax |-> JStr("n/a"), sell_tax |-> JInt(3),
     total_supply |-> JStr("many"), buys |-> JStr("22"), sells |-> None,
     sniper_count |-> JList(<< >>), lockInfo |-> JDict(EmptyDict)]

RawKeys == {KeyOf(f) : f \in TokenFields}

\* The subsets of S with at most n elements.
RECURSIVE SubsetsUpTo(_, _)
SubsetsUpTo(S, n) ==
    IF n = 0 THEN {{}}
    ELSE LET P == SubsetsUpTo(S, n - 1)
         IN  P \cup {p \cup {x} : p \in P, x \in S}

Restrict(d, K) == [k \in K |-> d[k]]

\* The sample mappings with at most MaxAbsent keys absent, or with at most
\* MaxAbsent keys present.
SampleMappings ==
    LET few == SubsetsUpTo(RawKeys, MaxAbsent)
    IN  {Restrict(m, RawKeys \ A) : m \in {NumberMapping, TextMapping}, A \in few}
        \cup {Restrict(m, K) : m \in {NumberMapping, TextMapping}, K \in few}

DictInit ==
    /\ d_data \in SampleMappings
    /\ d_token = Pending

\* Token.from_dict(d_data)
from_dict_call ==
    /\ d_token = Pending
    /\ d_token' = LET r == from_dict(d_data)
                  IN  IF r.ok THEN Return(r.v) ELSE Raise(Exc(r.exc, ""))
    /\ UNCHANGED << d_data, client_vars, parse_vars, filter_vars, url_vars,
                    query_vars, rug_vars, frame_vars,
                    risk_vars >>

DictNext == from_dict_call
InitFromDict ==
    /\ ClientIdle /\ ParseIdle /\ FilterIdle
    /\ DictInit /\ UrlIdle /\ QueryIdle /\ RugIdle /\ FrameIdle
    /\ RiskIdle
SpecFromDict == InitFromDict /\ [][DictNext]_vars

(***************************************************************************)
(* Properties of Token.from_dict.                                          *)
(***************************************************************************)
\* The Token of NumberMapping: holder_count 12.5 is truncated to 12.
NumberToken ==
    [id |-> JInt(7), chain |-> JStr("sol"), address |-> JStr("So1"),
     symbol |-> JStr("AAA"), price |-> JNum(15), volume |-> JInt(500),
     liquidity |-> JInt(300), market_cap |-> JInt(900),
     holder_count |-> JInt(12), swaps |-> JInt(40),
     price_change_percent |-> JNum(-35), price_change_percent1m |-> JNum(1),
     price_change_percent5m |-> JNum(2), price_change_percent1h |-> JNum(3),
     smart_buy_24h |-> JInt(4), smart_sell_24h |-> JInt(5),
     is_honeypot |-> JInt(1), is_open_source |-> JInt(1),
     renounced |-> JInt(1), bluechip_owner_percentage |-> JNum(4),
     logo |-> JStr("a.png"), buy_tax |-> JStr("0.01"),
     sell_tax |-> JStr("0.02"), total_supply |-> JInt(1000),
     buys |-> JInt(20), sells |-> JInt(21), sniper_count |-> JInt(2),
     lock_info |-> JDict([isLock |-> JBool(TRUE)])]

\* The Token of TextMapping: the numeric fields are parsed, the flags become
\* 0 or 1, the other fields are kept as they came.
TextToken ==
    [id |-> JStr("8"), chain |-> JStr("eth"), address |-> JStr("0xb"),
     symbol |-> JStr("BBB"), price |-> JNum(25), volume |-> JInt(600),
     liquidity |-> JNum(5), market_cap |-> JInt(-1),
     holder_count |-> JInt(12), swaps |-> JInt(-3),
     price_change_percent |-> JNum(-5), price_change_percent1m |-> JNum(7),
     price_change_percent5m |-> JInt(8), price_change_percent1h |-> JInt(9),
     smart_buy_24h |-> JInt(6), smart_sell_24h |-> JInt(7),
     is_honeypot |-> JInt(0), is_open_source |-> JInt(1),
     renounced |-> JInt(0), bluechip_owner_percentage |-> JNum(1),
     logo |-> JStr("b.png"), buy_tax |-> JStr("n/a"), sell_tax |-> JInt(3),
     total_supply |-> JStr("many"), buys |-> JStr("22"), sells |-> None,
     sniper_count |-> JList(<< >>), lock_info |-> JDict(EmptyDict)]

\* The default the documentation gives an absent field.
DocumentedDefault(f) ==
    IF f \in {"chain", "address", "symbol"} THEN JStr("")
    ELSE IF f \in {"logo", "buy_tax", "sell_tax", "total_supply", "buys",
                   "sells", "sniper_count", "lock_info"} THEN None
    ELSE JNum(0)

\* C11: Token.from_dict succeeds whatever keys are absent from the raw
\* mapping; each absent field takes its default (0 for id and the numeric
\* fields, "" for chain, address and symbol, None for the optional fields)
\* and each present key keeps its converted value.
C11_DefaultsOnMissingKeys ==
    d_token # Pending =>
        /\ d_token.kind = "return"
        /\ DOMAIN d_token.value = TokenFields
        /\ \A f \in TokenFields :
             LET k == IF f = "lock_info" THEN "lockInfo" ELSE f
             IN  d_token.value[f] =
                    IF k \notin DOMAIN d_data THEN DocumentedDefault(f)
                    ELSE IF d_data[k] = NumberMapping[k] THEN NumberToken[f]
                    ELSE TextToken[f]

\* A Token built from a mapping without 'volume' and 'lockInfo' whose price
\* came as text.
C11_Witness ==
    /\ d_token # Pending
    /\ d_token.kind = "return"
    /\ DOMAIN d_data = RawKeys \ {"volume", "lockInfo"}
    /\ d_data["price"] = JStr("2.5")
    /\ d_token.value["price"] = JNum(25)
    /\ d_token.value["volume"] = JNum(0)
    /\ d_token.value["lock_info"] = None

(***************************************************************************)
(* The rugcheck library and the risk score (GMGNTokenAPI.check_token_rug_  *)
(* risk, _extract_risk_score, filter_safe_tokens_by_rugcheck).  A risk     *)
(* score is a float between 0 and 1, kept in thousandths: Risk(300) is     *)
(* 0.3.  A number of the result in tenths n is n/10, so score/100 is n     *)
(* thousandths and a score_normalised of n tenths is 100 * n thousandths.  *)
(***************************************************************************)
Risk(m) == [t |-> "risk", m |-> m]

\* d[k] = v
Put(d, k, v) == [x \in DOMAIN d \cup {k} |-> IF x = k THEN v ELSE d[x]]

\* The floats of the risk computation: finite ones in thousandths, and the
\* three that are not finite (c is "nan", "inf" or "-inf").
Finite(m) == [c |-> "fin", m |-> m]
NonFinite(c) == [c |-> c]

\* The float that float() returned, in thousandths.
Thousandths(v) == IF v.t = "float" THEN NonFinite(v.c) ELSE Finite(v.n * 100)

\* 1.0 - x
OneMinus(x) ==
    CASE x.c = "fin" -> Finite(1000 - x.m)
      [] x.c = "inf" -> NonFinite("-inf")
      [] x.c = "-inf" -> NonFinite("inf")
      [] x.c = "nan" -> x

\* x / 100.0 (the finite floats drawn are whole tenths).
Div100(x) == IF x.c = "fin" THEN Finite(x.m \div 100) ELSE x

\* a < b on floats: false whenever either side is nan.
Less(a, b) ==
    CASE a.c = "nan" \/ b.c = "nan" -> FALSE
      [] a.c = "inf" \/ b.c = "-inf" -> FALSE
      [] a.c = "-inf" \/ b.c = "inf" -> TRUE
      [] OTHER -> a.m < b.m

\* min(a, b) and max(a, b) of Python: the first argument unless the second
\* compares smaller (larger), so a nan in second place is dropped.
min(a, b) == IF Less(b, a) THEN b ELSE a
max(a, b) == IF Less(a, b) THEN b ELSE a

\* max(0.0, min(1.0, x))
Clamp(x) == max(Finite(0), min(Finite(1000), x))

\* The float a call returns, as a risk score.
AsRisk(x) == IF x.c = "fin" THEN Risk(x.m) ELSE [t |-> "risk", c |-> x.c]

\* The handler 'except (ValueError, TypeError)' of _extract_risk_score: 0.5
\* for these two, any other exception leaves the method.
extract_handler(exc) ==
    IF exc \in {"ValueError", "TypeError"} THEN Return(Risk(500))
    ELSE Raise(Exc(exc, "int too large to convert to float"))

\* _extract_risk_score(rugcheck_result) for a dictionary: the first of
\* score_normalised, score, rugged and risks that is there decides; what
\* float() raises on a score goes to the handler.
_extract_risk_score(rugcheck_result) ==
    LET d == rugcheck_result
        has(k) == k \in DOMAIN d /\ d[k] # None
    IN  IF has("score_normalised")
        THEN LET score == float(d["score_normalised"])
             IN  IF score.ok
                 THEN Return(AsRisk(Clamp(OneMinus(Thousandths(score.v)))))
                 ELSE extract_handler(score.exc)
        ELSE IF has("score")
        THEN LET score == float(d["score"])
             IN  IF score.ok
                 THEN LET normalized == Div100(Thousandths(score.v))
                      IN  Return(AsRisk(Clamp(OneMinus(normalized))))
                 ELSE extract_handler(score.exc)
        ELSE IF Truthy(Get(d, "rugged", JBool(FALSE))) THEN Return(Risk(1000))
        ELSE IF "risks" \in DOMAIN d /\ d["risks"].t = "list"
        THEN LET risk_count == Len(d["risks"].l)
             IN  Return(AsRisk(min(Finite(1000), Finite(risk_count * 100))))
        ELSE Return(Risk(500))

\* The dictionary of the except handler of check_token_rug_risk.
RugError(message) == [error |-> JStr(message), risk_score |-> None]

\* check_token_rug_risk, given what rugcheck(...).to_dict() produced: an
\* exception, a value that is not a dictionary (the code then raises on
\* it inside the try) or an exception out of _extract_risk_score gives the
\* error dictionary; otherwise the dictionary gets its risk_score and the
\* convenience fields.
check_token_rug_risk(outcome) ==
    IF outcome.kind = "raise" THEN RugError(Str(outcome.exc))
    ELSE IF outcome.value.t # "dict"
    THEN RugError("'" \o TypeName(outcome.value) \o "' is not a dictionary")
    ELSE IF _extract_risk_score(outcome.value.d).kind = "raise"
    THEN RugError(Str(_extract_risk_score(outcome.value.d).exc))
    ELSE LET raw == outcome.value.d
             scored == Put(raw, "risk_score", _extract_risk_score(raw).value)
             rugged == Put(scored, "is_rugged",
                           Get(scored, "rugged", JBool(FALSE)))
             score == Put(rugged, "rugcheck_score", Get(rugged, "score", JInt(0)))
         IN  Put(score, "normalized_score",
                 Get(score, "score_normalised", JNum(5)))

\* The test of filter_safe_tokens_by_rugcheck on one rug_result.
passes_rugcheck(rug_result, max_risk_score) ==
    /\ "error" \notin DOMAIN rug_result
    /\ LET risk_score == Get(rug_result, "risk_score", None)
       IN  risk_score # None /\ risk_score.m <= max_risk_score.m

\* filter_safe_tokens_by_rugcheck(tokens, chain, max_risk_score), where
\* outcomes[i] is what rugcheck produces for tokens[i].
filter_safe_tokens_by_rugcheck(tokens, outcomes, max_risk_score) ==
    LET keep == {i \in DOMAIN tokens :
                    passes_rugcheck(check_token_rug_risk(outcomes[i]),
                                    max_risk_score)}
        RECURSIVE safe_tokens(_)
        safe_tokens(i) ==
            IF i = 0 THEN << >>
            ELSE IF i \in keep THEN Append(safe_tokens(i - 1), tokens[i])
            ELSE safe_tokens(i - 1)
    IN  safe_tokens(Len(tokens))

\* What rugcheck(address, ...).to_dict() can produce.
RugOutcomes ==
    { Return(JDict([score_normalised |-> JNum(9), score |-> JInt(90),
                    rugged |-> JBool(FALSE), risks |-> JList(<< >>)])),
      Return(JDict([rugged |-> JBool(TRUE), score |-> JInt(100)])),
      Return(JDict([rugged |-> JBool(TRUE)])),
      Return(JDict([risks |-> JList(<< JStr("mint"), JStr("freeze") >>)])),
      Return(JDict([error |-> JStr("not found"), score |-> JInt(100)])),
      Return(JDict([score |-> JHugeInt])),
      Return(None),
      Raise(Exc("ConnectionError", "rugcheck unavailable")) }

MaxRiskScores == {Risk(0), Risk(300), Risk(1000)}

(***************************************************************************)
(* The object runs: the operations of the API applied, one after another,  *)
(* to a caller's list of Token objects.  A list holds references into      *)
(* heap; an operation yields the heap and the caller's list as it leaves   *)
(* them, and the value it returns.                                         *)
(***************************************************************************)
Effect(heap, tokens, out) == [heap |-> heap, tokens |-> tokens, out |-> out]
TokenList(l) == [kind |-> "tokens", l |-> l]
Strings(l) == [kind |-> "strings", l |-> l]

\* CriteriaFilter(criteria).filter(tokens): a list comprehension.
CriteriaFilter_effect(heap, tokens, criteria) ==
    Effect(heap, tokens,
           SelectSeq(tokens, LAMBDA ref : matches(criteria, heap[ref])))

\* A TopNFilter that truncates the list it is given (del tokens[n:]).
TopNFilter_effect_in_place(heap, tokens, n) ==
    Effect(heap, SliceTo(tokens, n), SliceTo(tokens, n))

\* TopNFilter(n).filter(tokens): a slice, which is a new list.
TopNFilter_effect(heap, tokens, n) ==
    Effect(heap, tokens, TopNFilter_filter(n, tokens))

CriteriaFilter(criteria) == [kind |-> "criteria", criteria |-> criteria]
TopNFilter(n) == [kind |-> "topn", n |-> n]

\* filter_instance.filter(tokens)
filter_effect(filter_instance, heap, tokens) ==
    IF filter_instance.kind = "criteria"
    THEN CriteriaFilter_effect(heap, tokens, filter_instance.criteria)
    ELSE TopNFilter_effect(heap, tokens, filter_instance.n)

\* CompositeFilter(filters).filter(tokens): result = tokens, then every
\* filter on the result of the one before; with no filter the list itself.
RECURSIVE CompositeFilter_effect(_, _, _)
CompositeFilter_effect(heap, tokens, filters) ==
    IF filters = << >> THEN Effect(heap, tokens, tokens)
    ELSE LET first == filter_effect(filters[1], heap, tokens)
             rest == CompositeFilter_effect(first.heap, first.out, Tail(filters))
         IN  Effect(rest.heap, first.tokens, rest.out)

\* f"{x:.2f}" and f"{x:.6f}" of a number in tenths: zeros is what follows the
\* first decimal.
Fixed(n, zeros) ==
    LET mag == IF n < 0 THEN 0 - n ELSE n
    IN  (IF n < 0 THEN "-" ELSE "") \o IntStr(mag \div 10) \o "."
            \o DigitStr(mag % 10) \o zeros

\* f"{token.symbol}" of the symbols the runs draw.
SymbolStr(symbol) == IF symbol.t = "str" THEN symbol.s ELSE "None"

\* GainersFormatter().format(token, index)
GainersFormatter_format(token, index) ==
    "  " \o IntStr(index) \o ". " \o SymbolStr(token["symbol"])
        \o " - 1h: " \o Fixed(token["price_change_percent1h"].n, "0")
        \o "% | 24h: " \o Fixed(token["price_change_percent"].n, "0")
        \o "% | Price: $" \o Fixed(token["price"].n, "00000")

\* [formatter.format(token, i+1) for i, token in enumerate(tokens)]
format_effect(heap, tokens) ==
    Effect(heap, tokens,
           [i \in DOMAIN tokens |-> GainersFormatter_format(heap[tokens[i]], i)])

\* filter_safe_tokens_by_rugcheck(tokens, chain, max_risk_score)
rugcheck_effect(heap, tokens, outcomes, max_risk_score) ==
    Effect(heap, tokens,
           filter_safe_tokens_by_rugcheck(tokens, outcomes, max_risk_score))

\* The filter lists of the composite filters applied.
SampleComposites ==
    {<< >>}
    \cup {<< CriteriaFilter(FilterCriteria), TopNFilter(n) >> : n \in -1..MaxTokens}
    \cup {<< TopNFilter(n), CriteriaFilter(FilterCriteria) >> : n \in -1..MaxTokens}

\* A caller's list of the Token objects of the heap, in their order.
FrameInit ==
    /\ o_heap \in SeqsUpTo(SampleTokens, MaxTokens)
    /\ o_list = [i \in 1..Len(o_heap) |-> i]
    /\ o_out = [kind |-> "none"]
    /\ o_calls = 0

\* One operation is applied to the caller's list.
Applied(e, out) ==
    /\ o_calls < MaxCalls
    /\ o_heap' = e.heap
    /\ o_list' = e.tokens
    /\ o_out' = out
    /\ o_calls' = o_calls + 1
    /\ UNCHANGED << client_vars, parse_vars, filter_vars, dict_vars, url_vars,
                    query_vars, rug_vars,
                    risk_vars >>

CriteriaFilter_op ==
    \E c \in SampleCriteria :
        LET e == CriteriaFilter_effect(o_heap, o_list, c)
        IN  Applied(e, TokenList(e.out))

TopNFilter_op ==
    \E n \in (0 - MaxTokens - 1)..(MaxTokens + 1) :
        LET e == TopNFilter_effect(o_heap, o_list, n)
        IN  Applied(e, TokenList(e.out))

CompositeFilter_op ==
    \E filters \in SampleComposites :
        LET e == CompositeFilter_effect(o_heap, o_list, filters)
        IN  Applied(e, TokenList(e.out))

format_op ==
    LET e == format_effect(o_heap, o_list)
    IN  Applied(e, Strings(e.out))

rugcheck_op ==
    \E outcomes \in [DOMAIN o_list -> RugOutcomes], m \in MaxRiskScores :
        LET e == rugcheck_effect(o_heap, o_list, outcomes, m)
        IN  Applied(e, TokenList(e.out))

FrameNext ==
    \/ CriteriaFilter_op
    \/ TopNFilter_op
    \/ CompositeFilter_op
    \/ format_op
    \/ rugcheck_op
InitFrame ==
    /\ ClientIdle /\ ParseIdle /\ FilterIdle
    /\ DictIdle /\ UrlIdle /\ QueryIdle /\ RugIdle /\ FrameInit
    /\ RiskIdle
SpecFrame == InitFrame /\ [][FrameNext]_vars

(***************************************************************************)
(* Properties of the objects.                                              *)
(***************************************************************************)
\* C12: no operation of the API (CriteriaFilter, TopNFilter, CompositeFilter,
\* a formatter, the rugcheck filter) changes a field of a Token passed in,
\* and the caller's token list keeps its length and order.
C12_TokensNeverMutated ==
    [][o_heap' = o_heap /\ o_list' = o_list]_vars

\* Two operations were applied to a list of two tokens, the last returning
\* only the second of them.
C12_Witness ==
    /\ o_calls = 2
    /\ Len(o_list) = 2
    /\ o_out.kind = "tokens"
    /\ o_out.l = << 2 >>

(***************************************************************************)
(* The request-building runs: QueryParameters.to_url_params with           *)
(* GMGNTokenAPI.get_tokens, and GMGNWrapper.get_token_rankings.            *)
(***************************************************************************)
\* The values of the enumerations (the same in both files).
Chain == {"eth", "bsc", "base", "sol", "tron"}
TimePeriod == {"1m", "5m", "1h", "6h", "24h"}
SortCriteria ==
    {"open_timestamp", "liquidity", "marketcap", "bluechip_owner_percentage",
     "holder_count", "smartmoney", "swaps", "volume", "price", "change1m",
     "change5m", "change1h"}
SortDirection == {"asc", "desc"}

\* GMGNConfig.base_url and GMGNWrapper.BASE_URL
base_url == "https://gmgn.ai/defi/quotation/v1/rank"
BASE_URL == "https://gmgn.ai/defi/quotation/v1/rank"

\* QueryParameters(...), every field given.
QueryParameters(chain, time_period, criteria, direction, include_not_honeypot, include_verified, include_renounced) ==
    [chain |-> chain, time_period |-> time_period, criteria |-> criteria,
     direction |-> direction, include_not_honeypot |-> include_not_honeypot,
     include_verified |-> include_verified,
     include_renounced |-> include_renounced]

\* params.append(item) when the flag is set.
AppendIf(flag, params, item) == IF flag THEN Append(params, item) ELSE params

\* A to_url_params that appends the verified filter first.
to_url_params_verified_first(self) ==
    LET params == << << "orderby", self.criteria >>,
                     << "direction", self.direction >> >>
        p1 == AppendIf(self.include_verified, params,
                       << "filters[]", "verified" >>)
        p2 == AppendIf(self.include_not_honeypot, p1,
                       << "filters[]", "not_honeypot" >>)
    IN  AppendIf(self.include_renounced, p2, << "filters[]", "renounced" >>)

\* QueryParameters.to_url_params
to_url_params(self) ==
    LET params == << << "orderby", self.criteria >>,
                     << "direction", self.direction >> >>
        p1 == AppendIf(self.include_not_honeypot, params,
                       << "filters[]", "not_honeypot" >>)
        p2 == AppendIf(self.include_verified, p1,
                       << "filters[]", "verified" >>)
    IN  AppendIf(self.include_renounced, p2, << "filters[]", "renounced" >>)

\* The url and url_params GMGNTokenAPI.get_tokens passes to make_request.
get_tokens_request(params) ==
    [url |-> base_url \o "/" \o params.chain \o "/swaps/" \o params.time_period,
     params |-> to_url_params(params)]

\* The url and params GMGNWrapper.get_token_rankings passes to session.get.
get_token_rankings_request(chain, time_period, criteria, direction, include_not_honeypot, include_verified, include_renounced) ==
    LET params == << << "orderby", criteria >>, << "direction", direction >> >>
        p1 == AppendIf(include_not_honeypot, params,
                       << "filters[]", "not_honeypot" >>)
        p2 == AppendIf(include_verified, p1, << "filters[]", "verified" >>)
        p3 == AppendIf(include_renounced, p2, << "filters[]", "renounced" >>)
    IN  [url |-> BASE_URL \o "/" \o chain \o "/swaps/" \o time_period,
         params |-> p3]

UrlInit ==
    /\ u_args \in [chain : Chain, time_period : TimePeriod,
                   criteria : SortCriteria, direction : SortDirection,
                   include_not_honeypot : BOOLEAN, include_verified : BOOLEAN,
                   include_renounced : BOOLEAN]
    /\ u_api = Pending
    /\ u_wrapper = Pending

\* GMGNTokenAPI.get_tokens(QueryParameters(...)) builds its request.
get_tokens_build ==
    /\ u_api = Pending
    /\ u_api' = get_tokens_request(
                    QueryParameters(u_args.chain, u_args.time_period,
                                    u_args.criteria, u_args.direction,
                                    u_args.include_not_honeypot,
                                    u_args.include_verified,
                                    u_args.include_renounced))
    /\ UNCHANGED << u_args, u_wrapper, client_vars, parse_vars, filter_vars,
                    dict_vars, query_vars, rug_vars, frame_vars,
                    risk_vars >>

\* GMGNWrapper.get_token_rankings(...) builds its request.
get_token_rankings_build ==
    /\ u_wrapper = Pending
    /\ u_wrapper' = get_token_rankings_request(
                        u_args.chain, u_args.time_period, u_args.criteria,
                        u_args.direction, u_args.include_not_honeypot,
                        u_args.include_verified, u_args.include_renounced)
    /\ UNCHANGED << u_args, u_api, client_vars, parse_vars, filter_vars,
                    dict_vars, query_vars, rug_vars, frame_vars,
                    risk_vars >>

UrlNext ==
    \/ get_tokens_build
    \/ get_token_rankings_build
InitUrl ==
    /\ ClientIdle /\ ParseIdle /\ FilterIdle
    /\ DictIdle /\ UrlInit /\ QueryIdle /\ RugIdle /\ FrameIdle
    /\ RiskIdle
SpecUrl == InitUrl /\ [][UrlNext]_vars

(***************************************************************************)
(* Properties of the request building.                                     *)
(***************************************************************************)
\* The request the documentation describes for the arguments a.
DocumentedRequest(a) ==
    LET flags == << [on |-> a.include_not_honeypot, name |-> "not_honeypot"],
                    [on |-> a.include_verified, name |-> "verified"],
                    [on |-> a.include_renounced, name |-> "renounced"] >>
        set == SelectSeq(flags, LAMBDA x : x.on)
    IN  [url |-> "https://gmgn.ai/defi/quotation/v1/rank/" \o a.chain
                    \o "/swaps/" \o a.time_period,
         params |-> << << "orderby", a.criteria >>,
                       << "direction", a.direction >> >>
                    \o [i \in 1..Len(set) |-> << "filters[]", set[i].name >>]]

\* C13: for every chain, time period, criterion, direction and flags the
\* URL is base_url/chain/swaps/time_period and the parameter list is orderby,
\* direction, then filters[] = not_honeypot, verified, renounced, each
\* exactly when its flag is set and in that order; get_tokens and
\* get_token_rankings build the same request.
C13_SameRequest ==
    /\ u_api # Pending => u_api = DocumentedRequest(u_args)
    /\ u_wrapper # Pending => u_wrapper = DocumentedRequest(u_args)
    /\ (u_api # Pending /\ u_wrapper # Pending) => u_api = u_wrapper

\* Both requests were built for verified and renounced without not_honeypot.
C13_Witness ==
    /\ u_api # Pending
    /\ u_wrapper # Pending
    /\ ~u_args.include_not_honeypot
    /\ u_args.include_verified
    /\ u_args.include_renounced
    /\ u_args.chain = "sol" /\ u_args.time_period = "1h"
    /\ u_api.url = "https://gmgn.ai/defi/quotation/v1/rank/sol/swaps/1h"
    /\ Len(u_wrapper.params) = 4
    /\ u_wrapper.params[3] = << "filters[]", "verified" >>
    /\ u_wrapper.params[4] = << "filters[]", "renounced" >>

(***************************************************************************)
(* Properties of FilterCriteria.matches.                                   *)
(***************************************************************************)
\* A threshold that is set (not None) holds, with an inclusive bound.
AtLeast(c, f, token, field) == c[f] # None => token[field].n >= c[f].n
AtMost(c, f, token, field) == c[f] # None => token[field].n <= c[f].n

\* matches as documented: honeypots excluded on request, and every threshold
\* that is set holds.
DocumentedMatches(c, token) ==
    /\ c["exclude_honeypots"].b => token["is_honeypot"].n = 0
    /\ AtLeast(c, "min_volume", token, "volume")
    /\ AtMost(c, "max_volume", token, "volume")
    /\ AtLeast(c, "min_market_cap", token, "market_cap")
    /\ AtMost(c, "max_market_cap", token, "market_cap")
    /\ AtLeast(c, "min_liquidity", token, "liquidity")
    /\ AtMost(c, "max_liquidity", token, "liquidity")
    /\ AtLeast(c, "min_holder_count", token, "holder_count")
    /\ AtLeast(c, "min_price_change", token, "price_change_percent")
    /\ AtMost(c, "max_price_change", token, "price_change_percent")

\* C14: matches(token) is true exactly when honeypots are excluded on
\* request and every threshold that is set (not None) holds inclusively, so
\* that CriteriaFilter keeps exactly the tokens of the list that do; a
\* min_price_change of 0 then rejects every token with a negative change.
C14_MatchesIffThresholdsHold ==
    f_pc = "filtered" =>
        /\ f_out1 = SelectSeq(f_tokens, LAMBDA t : DocumentedMatches(f_c1, t))
        /\ f_c1["min_price_change"] = JInt(0) =>
             \A i \in DOMAIN f_out1 : f_out1[i]["price_change_percent"].n >= 0

(***************************************************************************)
(* The convenience methods of GMGNTokenAPI (get_top_gainers,               *)
(* get_high_value_tokens, get_safe_tokens, get_small_cap_tokens), each on  *)
(* top of get_tokens_with_filter.  response is what get_tokens produces    *)
(* for the request: the parsed tokens, or the exception of make_request or *)
(* parse_response.                                                         *)
(***************************************************************************)
\* Python's binding of a call's arguments (given by name) to parameters:
\* an argument that names no parameter, or a parameter without argument
\* and default, raises TypeError.
Bind(parameters, defaults, args) ==
    IF ~(DOMAIN args \subseteq parameters)
    THEN Raise(Exc("TypeError", "got an unexpected keyword argument"))
    ELSE IF ~(parameters \subseteq DOMAIN args \cup DOMAIN defaults)
    THEN Raise(Exc("TypeError", "missing 1 required positional argument"))
    ELSE Return([x \in parameters |->
                    IF x \in DOMAIN args THEN args[x] ELSE defaults[x]])

\* The generated QueryParameters.__init__: chain, time_period and criteria
\* have no default.
QueryParameters_init(kwargs) ==
    Bind({"chain", "time_period", "criteria", "direction",
          "include_not_honeypot", "include_verified", "include_renounced"},
         [direction |-> "desc", include_not_honeypot |-> TRUE,
          include_verified |-> FALSE, include_renounced |-> FALSE],
         kwargs)

CompositeFilter(filters) == [kind |-> "composite", filters |-> filters]

\* filter_instance.filter(tokens), on the tokens themselves.
RECURSIVE BaseTokenFilter_filter(_, _)
BaseTokenFilter_filter(filter_instance, tokens) ==
    CASE filter_instance.kind = "criteria" ->
            CriteriaFilter_filter(filter_instance.criteria, tokens)
      [] filter_instance.kind = "topn" ->
            TopNFilter_filter(filter_instance.n, tokens)
      [] filter_instance.kind = "composite" ->
            IF filter_instance.filters = << >> THEN tokens
            ELSE BaseTokenFilter_filter(
                     CompositeFilter(Tail(filter_instance.filters)),
                     BaseTokenFilter_filter(filter_instance.filters[1], tokens))

\* What a method did: the request it sent (None: none) and its result.
Outcome(request, res) == [request |-> request, result |-> res]

\* get_tokens_with_filter(params, filter_instance)
get_tokens_with_filter(params, filter_instance, response) ==
    Outcome(get_tokens_request(params),
            IF response.kind = "raise" THEN response
            ELSE Return(BaseTokenFilter_filter(filter_instance, response.value)))

\* A name of the body that is neither a parameter nor a local nor a global.
NameError(name) == Exc("NameError", "name '" \o name \o "' is not defined")

\* get_top_gainers(self, chain, time_period=ONE_HOUR)
get_top_gainers(args, response) ==
    LET bound == Bind({"chain", "time_period"}, [time_period |-> "1h"], args)
    IN  IF bound.kind = "raise" THEN Outcome(None, bound)
        ELSE LET locals == bound.value
                 criteria == IF locals.time_period = "1m" THEN "change1m"
                             ELSE IF locals.time_period = "5m" THEN "change5m"
                             ELSE "change1h"
                 params == QueryParameters_init(
                               [chain |-> locals.chain,
                                time_period |-> locals.time_period,
                                criteria |-> criteria])
             IN  IF params.kind = "raise" THEN Outcome(None, params)
                 ELSE IF "limit" \notin DOMAIN locals
                 THEN Outcome(None, Raise(NameError("limit")))
                 ELSE get_tokens_with_filter(params.value,
                                             TopNFilter(locals["limit"]),
                                             response)

\* get_high_value_tokens(self, chain, min_volume=500000,
\*                       min_market_cap=1000000, limit=10)
get_high_value_tokens(args, response) ==
    LET bound == Bind({"chain", "min_volume", "min_market_cap", "limit"},
                      [min_volume |-> JInt(500000),
                       min_market_cap |-> JInt(1000000), limit |-> 10],
                      args)
    IN  IF bound.kind = "raise" THEN Outcome(None, bound)
        ELSE LET locals == bound.value
                 params == QueryParameters_init(
                               [chain |-> locals.chain, time_period |-> "24h",
                                criteria |-> "volume"])
                 criteria_filter ==
                     CriteriaFilter(
                         [FilterCriteria EXCEPT
                             !["min_volume"] = locals.min_volume,
                             !["min_market_cap"] = locals.min_market_cap])
                 top_filter == TopNFilter(locals.limit)
             IN  IF params.kind = "raise" THEN Outcome(None, params)
                 ELSE get_tokens_with_filter(
                          params.value,
                          CompositeFilter(<< criteria_filter, top_filter >>),
                          response)

\* get_safe_tokens(self, chain, criteria=VOLUME, limit=10)
get_safe_tokens(args, response) ==
    LET bound == Bind({"chain", "criteria", "limit"},
                      [criteria |-> "volume", limit |-> 10], args)
    IN  IF bound.kind = "raise" THEN Outcome(None, bound)
        ELSE LET locals == bound.value
                 params == QueryParameters_init(
                               [chain |-> locals.chain,
                                criteria |-> locals.criteria,
                                include_not_honeypot |-> TRUE,
                                include_verified |-> TRUE,
                                include_renounced |-> TRUE])
             IN  IF params.kind = "raise" THEN Outcome(None, params)
                 ELSE get_tokens_with_filter(params.value,
                                             TopNFilter(locals.limit), response)

\* get_small_cap_tokens(self, chain, criteria=VOLUME, limit=10)
get_small_cap_tokens(args, response) ==
    LET bound == Bind({"chain", "criteria", "limit"},
                      [criteria |-> "volume", limit |-> 10], args)
    IN  IF bound.kind = "raise" THEN Outcome(None, bound)
        ELSE LET locals == bound.value
                 params == QueryParameters_init(
                               [chain |-> locals.chain, time_period |-> "24h",
                                criteria |-> locals.criteria])
                 small_cap_filter ==
                     CriteriaFilter(
                         [FilterCriteria EXCEPT
                             !["max_market_cap"] = JInt(200000),
                             !["max_liquidity"] = JInt(150000),
                             !["max_volume"] = JInt(300000),
                             !["min_age_days"] = JInt(1),
                             !["exclude_honeypots"] = JBool(TRUE)])
                 top_filter == TopNFilter(locals.limit)
             IN  IF params.kind = "raise" THEN Outcome(None, params)
                 ELSE get_tokens_with_filter(
                          params.value,
                          CompositeFilter(<< small_cap_filter, top_filter >>),
                          response)

(***************************************************************************)
(* The convenience-method runs: one call of a method, on a response.       *)
(***************************************************************************)
\* Tokens of a response: at the small-cap limits, below them, far above
\* them, a honeypot, and one with a negative volume and market cap.
QueryTokens ==
    { TokenOf([symbol |-> JStr("EDGE"), market_cap |-> JInt(200000),
               liquidity |-> JInt(150000), volume |-> JInt(300000)]),
      TokenOf([symbol |-> JStr("SMALL"), market_cap |-> JInt(1000),
               liquidity |-> JInt(1000), volume |-> JInt(1000)]),
      TokenOf([symbol |-> JStr("LARGE"), market_cap |-> JInt(5000000),
               liquidity |-> JInt(800000), volume |-> JInt(1000000)]),
      TokenOf([symbol |-> JStr("TRAP"), market_cap |-> JInt(5000000),
               volume |-> JInt(1000000), is_honeypot |-> JInt(1)]),
      TokenOf([symbol |-> JStr("NEG"), market_cap |-> JInt(-10),
               volume |-> JInt(-5)]) }

\* What get_tokens can produce for a request.
QueryResponses ==
    {Return(tokens) : tokens \in SeqsUpTo(QueryTokens, MaxTokens)}
    \cup {Raise(GMGNAPIError(404, "Not Found")),
          Raise(GMGNParsingError("No 'data' key in response"))}

QueryChains == {"sol", "base"}
Limits == 0..(MaxTokens + 1)

\* The arguments of the calls, by name.
TopGainersArgs ==
    {[chain |-> c] : c \in QueryChains}
    \cup {[chain |-> c, time_period |-> t] : c \in QueryChains, t \in TimePeriod}
    \cup {[chain |-> c, time_period |-> t, limit |-> n] :
             c \in QueryChains, t \in TimePeriod, n \in Limits}
HighValueArgs ==
    {[chain |-> c] : c \in QueryChains}
    \cup {[chain |-> c, min_volume |-> v, min_market_cap |-> m, limit |-> n] :
             c \in QueryChains, v \in {JInt(0), JInt(1000000)},
             m \in {JInt(0), JInt(5000000)}, n \in Limits}
ChainCriteriaLimitArgs ==
    {[chain |-> c] : c \in QueryChains}
    \cup {[chain |-> c, criteria |-> k, limit |-> n] :
             c \in QueryChains, k \in {"volume", "liquidity"}, n \in Limits}

QueryInit ==
    /\ q_call = None
    /\ q_request = None
    /\ q_response \in QueryResponses
    /\ q_result = Pending

\* One call of a method: the request it sent and what it produced.
Called(method, args, o) ==
    /\ q_result = Pending
    /\ q_call' = [method |-> method, args |-> args]
    /\ q_request' = o.request
    /\ q_result' = o.result
    /\ UNCHANGED << q_response, client_vars, parse_vars, filter_vars,
                    dict_vars, url_vars, rug_vars, frame_vars,
                    risk_vars >>

get_top_gainers_call ==
    \E args \in TopGainersArgs :
        Called("get_top_gainers", args, get_top_gainers(args, q_response))

get_high_value_tokens_call ==
    \E args \in HighValueArgs :
        Called("get_high_value_tokens", args,
               get_high_value_tokens(args, q_response))

get_safe_tokens_call ==
    \E args \in ChainCriteriaLimitArgs :
        Called("get_safe_tokens", args, get_safe_tokens(args, q_response))

get_small_cap_tokens_call ==
    \E args \in ChainCriteriaLimitArgs :
        Called("get_small_cap_tokens", args,
               get_small_cap_tokens(args, q_response))

QueryNext ==
    \/ get_top_gainers_call
    \/ get_high_value_tokens_call
    \/ get_safe_tokens_call
    \/ get_small_cap_tokens_call
InitQuery ==
    /\ ClientIdle /\ ParseIdle /\ FilterIdle
    /\ DictIdle /\ UrlIdle /\ QueryInit /\ RugIdle /\ FrameIdle
    /\ RiskIdle
SpecQuery == InitQuery /\ [][QueryNext]_vars

(***************************************************************************)
(* Properties of the convenience methods.                                  *)
(***************************************************************************)
\* The first at most n items of a list (n >= 0).
FirstAtMost(tokens, n) == SubSeq(tokens, 1, Min(n, Len(tokens)))

\* An argument of the call, or the default of the signature.
Arg(name, default) ==
    IF name \in DOMAIN q_call.args THEN q_call.args[name] ELSE default

\* The call made was of this method and get_tokens succeeds for it.
Succeeds(method) ==
    /\ q_call # None
    /\ q_call.method = method
    /\ q_response.kind = "return"

\* p is q without some of its items, in q's order.
RECURSIVE IsSubsequence(_, _)
IsSubsequence(p, q) ==
    IF p = << >> THEN TRUE
    ELSE IF q = << >> THEN FALSE
    ELSE IF Head(p) = Head(q) THEN IsSubsequence(Tail(p), Tail(q))
    ELSE IsSubsequence(p, Tail(q))

\* C15: get_top_gainers(chain, time_period, limit=n) completes without error
\* whenever the request and the parse succeed, and returns the first at most
\* n tokens of a response queried with orderby change1m for 1m, change5m for
\* 5m and change1h for every other period.
C15_TopGainersReturns ==
    (Succeeds("get_top_gainers") /\ "limit" \in DOMAIN q_call.args) =>
        /\ q_result = Return(FirstAtMost(q_response.value, q_call.args["limit"]))
        /\ q_request # None
        /\ q_request.params[1] =
              << "orderby",
                 IF q_call.args["time_period"] = "1m" THEN "change1m"
                 ELSE IF q_call.args["time_period"] = "5m" THEN "change5m"
                 ELSE "change1h" >>

\* C16: get_safe_tokens(chain, criteria, limit) sends one query with the
\* three safety filters and, whenever the request and the parse succeed,
\* returns the first at most limit tokens of the response without raising.
C16_SafeTokensReturns ==
    Succeeds("get_safe_tokens") =>
        /\ q_request # None
        /\ SubSeq(q_request.params, 3, Len(q_request.params))
              = << << "filters[]", "not_honeypot" >>,
                   << "filters[]", "verified" >>,
                   << "filters[]", "renounced" >> >>
        /\ q_result = Return(FirstAtMost(q_response.value, Arg("limit", 10)))

\* C17: every token get_small_cap_tokens returns has market cap strictly
\* below 200000, liquidity strictly below 150000 and volume strictly below
\* 300000 and is not a honeypot; the result has at most limit tokens, in
\* response order.
C17_SmallCapStrictlyBelow ==
    (Succeeds("get_small_cap_tokens") /\ q_result.kind = "return") =>
        /\ \A i \in DOMAIN q_result.value :
             LET token == q_result.value[i]
             IN  /\ token["market_cap"].n < JInt(200000).n
                 /\ token["liquidity"].n < JInt(150000).n
                 /\ token["volume"].n < JInt(300000).n
                 /\ token["is_honeypot"].n = 0
        /\ Len(q_result.value) <= Arg("limit", 10)
        /\ IsSubsequence(q_result.value, q_response.value)

\* C18: get_high_value_tokens(chain, min_volume, min_market_cap, limit)
\* returns the first at most limit tokens of the response that have volume
\* >= min_volume and market_cap >= min_market_cap and are not honeypots, in
\* response order.
C18_HighValueAtLeast ==
    (Succeeds("get_high_value_tokens") /\ q_result.kind = "return") =>
        LET min_volume == Arg("min_volume", JInt(500000))
            min_market_cap == Arg("min_market_cap", JInt(1000000))
            high(token) == /\ token["volume"].n >= min_volume.n
                           /\ token["market_cap"].n >= min_market_cap.n
                           /\ token["is_honeypot"].n = 0
        IN  q_result.value
               = FirstAtMost(SelectSeq(q_response.value, high), Arg("limit", 10))

(***************************************************************************)
(* The rugcheck runs: one call of get_rugcheck_verified_tokens, with one   *)
(* step per call of check_token_rug_risk.                                  *)
(***************************************************************************)
\* The i-th token of a response, with an address of its own.
ListedToken(i) ==
    TokenOf([id |-> JInt(i), address |-> JStr("addr" \o IntStr(i)),
             symbol |-> JStr("T" \o IntStr(i))])

\* A slice that keeps the whole list.
initial_tokens_all(tokens, limit) == tokens

\* self.get_tokens(params)[:limit * 3]
initial_tokens(tokens, limit) == SliceTo(tokens, limit * 3)

RugInit ==
    /\ r_pc = "ready"
    /\ r_call = None
    /\ r_tokens \in {[i \in 1..n |-> ListedToken(i)] : n \in 0..MaxListed}
    /\ r_initial = << >>
    /\ r_checks = << >>
    /\ r_safe = << >>
    /\ r_result = Pending

\* The call up to the loop: the query (ok: whether get_tokens returns or
\* raises) and the slice of its tokens.
get_rugcheck_verified_tokens ==
    /\ r_pc = "ready"
    /\ \E limit \in 0..MaxLimit, m \in MaxRiskScores, ok \in BOOLEAN :
         /\ r_call' = [limit |-> limit, max_risk_score |-> m]
         /\ IF ok
            THEN /\ r_initial' = initial_tokens(r_tokens, limit)
                 /\ r_pc' = "filter"
                 /\ r_result' = r_result
            ELSE /\ r_initial' = r_initial
                 /\ r_pc' = "done"
                 /\ r_result' = Raise(GMGNAPIError(503, "Cloudflare block detected"))
    /\ UNCHANGED << r_tokens, r_checks, r_safe >>
    /\ UNCHANGED << client_vars, parse_vars, filter_vars, dict_vars, url_vars,
                    query_vars, frame_vars,
                    risk_vars >>

\* The turn of a loop whose check_token_rug_risk has no try: what rugcheck
\* raises leaves the loop and the method.
filter_safe_tokens_by_rugcheck_step_unguarded ==
    /\ r_pc = "filter"
    /\ Len(r_checks) < Len(r_initial)
    /\ \E outcome \in RugOutcomes :
         LET token == r_initial[Len(r_checks) + 1]
             rug_result == check_token_rug_risk(outcome)
         IN  /\ r_checks' = Append(r_checks, [token |-> token,
                                              outcome |-> outcome,
                                              rug_result |-> rug_result])
             /\ r_safe' = IF passes_rugcheck(rug_result, r_call.max_risk_score)
                          THEN Append(r_safe, token)
                          ELSE r_safe
             /\ IF outcome.kind = "raise"
                THEN r_pc' = "done" /\ r_result' = outcome
                ELSE UNCHANGED << r_pc, r_result >>
    /\ UNCHANGED << r_call, r_tokens, r_initial >>
    /\ UNCHANGED << client_vars, parse_vars, filter_vars, dict_vars, url_vars,
                    query_vars, frame_vars, risk_vars >>

\* One turn of the loop of filter_safe_tokens_by_rugcheck: rugcheck is called
\* for the next token and the token is kept if its result passes.
filter_safe_tokens_by_rugcheck_step ==
    /\ r_pc = "filter"
    /\ Len(r_checks) < Len(r_initial)
    /\ \E outcome \in RugOutcomes :
         LET token == r_initial[Len(r_checks) + 1]
             rug_result == check_token_rug_risk(outcome)
         IN  /\ r_checks' = Append(r_checks, [token |-> token,
                                              outcome |-> outcome,
                                              rug_result |-> rug_result])
             /\ r_safe' = IF passes_rugcheck(rug_result, r_call.max_risk_score)
                          THEN Append(r_safe, token)
                          ELSE r_safe
    /\ UNCHANGED << r_pc, r_call, r_tokens, r_initial, r_result >>
    /\ UNCHANGED << client_vars, parse_vars, filter_vars, dict_vars, url_vars,
                    query_vars, frame_vars,
                    risk_vars >>

\* The loop is over: return safe_tokens[:limit].
get_rugcheck_verified_tokens_return ==
    /\ r_pc = "filter"
    /\ Len(r_checks) = Len(r_initial)
    /\ r_pc' = "done"
    /\ r_result' = Return(SliceTo(r_safe, r_call.limit))
    /\ UNCHANGED << r_call, r_tokens, r_initial, r_checks, r_safe >>
    /\ UNCHANGED << client_vars, parse_vars, filter_vars, dict_vars, url_vars,
                    query_vars, frame_vars,
                    risk_vars >>

RugNext ==
    \/ get_rugcheck_verified_tokens
    \/ filter_safe_tokens_by_rugcheck_step
    \/ get_rugcheck_verified_tokens_return
InitRug ==
    /\ ClientIdle /\ ParseIdle /\ FilterIdle
    /\ DictIdle /\ UrlIdle /\ QueryIdle /\ RugInit /\ FrameIdle
    /\ RiskIdle
SpecRug == InitRug /\ [][RugNext]_vars

(***************************************************************************)
(* Properties of the rugcheck methods.                                     *)
(***************************************************************************)
\* The position of a token in the response (the tokens are distinct).
Position(token) == CHOOSE i \in DOMAIN r_tokens : r_tokens[i] = token

Rugged(outcome) ==
    /\ outcome.kind = "return"
    /\ outcome.value.t = "dict"
    /\ "rugged" \in DOMAIN outcome.value.d
    /\ outcome.value.d["rugged"] = JBool(TRUE)

\* C20: a token whose rugcheck result has rugged = true gets the risk score
\* 1.0, whatever else the result carries, and so is never kept as safe when
\* max_risk_score < 1.0.
C20_RuggedIsMaximumRisk ==
    \A i \in DOMAIN r_checks :
        Rugged(r_checks[i].outcome) =>
            /\ r_checks[i].rug_result["risk_score"] = Risk(1000)
            /\ r_call.max_risk_score.m < 1000 =>
                 \A k \in DOMAIN r_safe : r_safe[k] # r_checks[i].token

(***************************************************************************)
(* The runs of _extract_risk_score: one call on one rugcheck result        *)
(* dictionary.                                                             *)
(***************************************************************************)
\* A risks list of n entries.
Risks(n) == JList([i \in 1..n |-> JStr("risk")])

\* What a rugcheck result can hold under each of the four keys the method
\* reads: numbers inside and outside the expected scale, numeric and other
\* text, booleans, the floats that are not finite, an int too large for a
\* float, and values of the wrong type.
ScoreNormalisedValues ==
    { None, JNum(0), JNum(3), JNum(9), JNum(10), JNum(20), JNum(-5),
      JBool(TRUE), JStr("0.5"), JStr("abc"), JStr("nan"),
      JFloat("nan"), JFloat("inf"), JFloat("-inf"), JHugeInt, JList(<< >>) }
ScoreValues ==
    { None, JInt(0), JInt(30), JInt(90), JInt(250), JInt(-5),
      JStr("75"), JStr("abc"), JFloat("nan"), JHugeInt }
RuggedValues == {JBool(TRUE), JBool(FALSE)}
RisksValues == {Risks(n) : n \in 0..MaxRisks} \cup {JStr("high")}

\* The dictionaries with key k absent or bound to one of values.
Field(k, values) == {EmptyDict} \cup {[x \in {k} |-> v] : v \in values}

\* {**a, **b} for dictionaries with separate keys.
Merge(a, b) ==
    [x \in DOMAIN a \cup DOMAIN b |-> IF x \in DOMAIN a THEN a[x] ELSE b[x]]

RiskResults ==
    { Merge(Merge(a, b), Merge(c, d)) :
        a \in Field("score_normalised", ScoreNormalisedValues),
        b \in Field("score", ScoreValues),
        c \in Field("rugged", RuggedValues),
        d \in Field("risks", RisksValues) }

RiskInit ==
    /\ e_result \in {JDict(d) : d \in RiskResults}
    /\ e_score = Pending

\* self._extract_risk_score(result)
extract_risk_score_call ==
    /\ e_score = Pending
    /\ e_result # None
    /\ e_score' = _extract_risk_score(e_result.d)
    /\ UNCHANGED << e_result, client_vars, parse_vars, filter_vars, dict_vars,
                    url_vars, query_vars, rug_vars, frame_vars >>

RiskNext == extract_risk_score_call
InitRisk ==
    /\ ClientIdle /\ ParseIdle /\ FilterIdle
    /\ DictIdle /\ UrlIdle /\ QueryIdle /\ RugIdle /\ FrameIdle
    /\ RiskInit
SpecRisk == InitRisk /\ [][RiskNext]_vars

(***************************************************************************)
(* Properties of _extract_risk_score.                                      *)
(***************************************************************************)
\* The key is there with a value that is not None.
Present(d, k) == k \in DOMAIN d /\ d[k] # None

\* The risk scores, in thousandths, that '1 - score * scale clamped to
\* [0, 1], and 0.5 when the score cannot be converted' allows for a score:
\* the clamp of an infinity is the nearer end of the range, a nan is held to
\* the range only, and an int too large for a float may count either as
\* a number (1 - it clamps to 0) or as not convertible (0.5).
DocumentedScoreRisk(v, scale) ==
    IF v = JHugeInt THEN {0, 500}
    ELSE IF ~float(v).ok THEN {500}
    ELSE IF float(v).v = JFloat("nan") THEN 0..1000
    ELSE IF float(v).v = JFloat("inf") THEN {0}
    ELSE IF float(v).v = JFloat("-inf") THEN {1000}
    ELSE {Max(0, Min(1000, 1000 - float(v).v.n * scale))}

DocumentedRisk(d) ==
    IF Present(d, "score_normalised")
    THEN DocumentedScoreRisk(d["score_normalised"], 100)
    ELSE IF Present(d, "score") THEN DocumentedScoreRisk(d["score"], 1)
    ELSE IF Truthy(Get(d, "rugged", JBool(FALSE))) THEN {1000}
    ELSE IF "risks" \in DOMAIN d /\ d["risks"].t = "list"
    THEN {Min(1000, Len(d["risks"].l) * 100)}
    ELSE {500}

\* C21: for every rugcheck result dictionary _extract_risk_score returns a
\* value within [0, 1]: 1 - score_normalised clamped when score_normalised
\* is present, else 1 - score/100 clamped when score is present, else 1 when
\* rugged, else min(1, number of risks / 10) when a risks list is present,
\* else 0.5, and 0.5 when a score cannot be converted to a number.
C21_RiskScoreWithinRange ==
    e_score # Pending =>
        /\ e_score.kind = "return"
        /\ DOMAIN e_score.value = {"t", "m"}
        /\ e_score.value.m \in 0..1000
        /\ e_score.value.m \in DocumentedRisk(e_result.d)

(***************************************************************************)
(* Properties of check_token_rug_risk inside the loop of                   *)
(* filter_safe_tokens_by_rugcheck.                                         *)
(***************************************************************************)
\* The rugcheck call failed: rugcheck(...) or to_dict() raised, to_dict()
\* gave something that is not a dictionary, or the risk score could not be
\* extracted from it.
FailedCheck(outcome) ==
    \/ outcome.kind = "raise"
    \/ outcome.value.t # "dict"
    \/ _extract_risk_score(outcome.value.d).kind = "raise"

\* C22: check_token_rug_risk never raises: every failure of the rugcheck
\* call gives a result with an 'error' key and risk_score None, the token of
\* such a result is not among the safe tokens, and the loop goes on to the
\* tokens after it: when the method is done every token of the slice has
\* been checked, and the method raises only if the query did.
C22_CheckNeverRaises ==
    /\ \A i \in DOMAIN r_checks :
         FailedCheck(r_checks[i].outcome) =>
            /\ "error" \in DOMAIN r_checks[i].rug_result
            /\ r_checks[i].rug_result["risk_score"] = None
            /\ \A k \in DOMAIN r_safe : r_safe[k] # r_checks[i].token
    /\ r_pc = "done" =>
         IF r_result.kind = "return" THEN Len(r_checks) = Len(r_initial)
         ELSE r_checks = << >>

\* Two tokens: rugcheck raised for the first, the second was checked after
\* it, passed and was returned.
C22_Witness ==
    /\ r_pc = "done"
    /\ r_result.kind = "return"
    /\ Len(r_tokens) = 2
    /\ Len(r_checks) = 2
    /\ r_checks[1].outcome.kind = "raise"
    /\ r_checks[1].rug_result = RugError("rugcheck unavailable")
    /\ ~FailedCheck(r_checks[2].outcome)
    /\ r_result.value = << r_tokens[2] >>

====
